---- MODULE Spec2Model ----
(***************************************************************************)
(* A model of the options-tracker frontend (React + TanStack Query).       *)
(*                                                                         *)
(* The pages are independent components; each has a specification of its   *)
(* own over the variables that page owns, the other pages' variables       *)
(* staying parked at their initial values:                                 *)
(*   SpecPremium  calculatePremiumCost of the trade table, as a function   *)
(*   SpecForm     the Add Trade page (form state, create mutation)         *)
(*   SpecDetect   column auto-detection of the CSV import, as a function   *)
(*   SpecImport   the Import CSV page (preview, mapping, import mutation)  *)
(*   SpecTable    the trade table's filters                                *)
(*   SpecPaging   the trade table's sorting, paging and row deletion       *)
(*   SpecClose    the close dialog and the close and delete mutations      *)
(*   SpecCache    the query cache, the pages' mutations and the ledger     *)
(*   SpecChart    the Dashboard's premium chart, as a function             *)
(*   SpecResolver the positions, summary and highlight of one ledger       *)
(*                                                                         *)
(* Conventions.  A nullable value is a sequence: None is <<>> and Some(x)  *)
(* is <<x>>.  A text the code inspects (ticker, CSV header names) is a     *)
(* sequence of one-character strings, so that toUpperCase, toLowerCase,    *)
(* trim and includes are computed.  Money is held in cents.                *)
(***************************************************************************)
EXTENDS Integers, Sequences, FiniteSets, TLC

VARIABLES
    \* calculatePremiumCost, applied to one trade
    premTrade, premCost,
    \* Add Trade page
    form, openPositions, createPending, createReq, createResp, successMessage,
    nextId, alertMsg,
    \* column auto-detection, applied to one header row
    detCols, detMapping,
    \* Import CSV page
    file, preview, mapping, result, previewInFlight, importPending, importReq,
    importResp, importAlert, mappingEdits,
    \* trade table
    trades, tradesLoaded, filters, sortKey, sortAsc, tablePage, tradesFetching,
    deleteMutation, closeModalTrade, closeForm, closeMutation, inFlight,
    \* query cache and ledger
    ledger, ledgerNextId, cache, fetching, page, mutation, writes,
    \* Dashboard premium chart, applied to one premium response
    premiumData, period, chartData,
    \* the views derived from one ledger
    resolved

premVars == <<premTrade, premCost>>
formVars == <<form, openPositions, createPending, createReq, createResp,
              successMessage, nextId, alertMsg>>
detVars == <<detCols, detMapping>>
importVars == <<file, preview, mapping, result, previewInFlight, importPending,
                importReq, importResp, importAlert, mappingEdits>>
tableVars == <<trades, tradesLoaded, filters, sortKey, sortAsc, tablePage,
               tradesFetching, deleteMutation, closeModalTrade, closeForm,
               closeMutation, inFlight>>
cacheVars == <<ledger, ledgerNextId, cache, fetching, page, mutation, writes>>
chartVars == <<premiumData, period, chartData>>
resolverVars == <<resolved>>
viewVars == <<chartVars, resolverVars>>
vars == <<premVars, formVars, detVars, importVars, tableVars, cacheVars, viewVars>>

None == <<>>
Some(x) == <<x>>

RangeOf(s) == { s[i] : i \in 1..Len(s) }

\* Array.prototype.slice(start, end) and reverse, for 0 <= start <= end.
slice(s, start, end) ==
    SubSeq(s, start + 1, IF end < Len(s) THEN end ELSE Len(s))
reverse(s) == [i \in 1..Len(s) |-> s[Len(s) + 1 - i]]

-----------------------------------------------------------------------------
(* Text: characters, case conversion, trim, substring.                     *)

UpperAlpha == <<"A","B","C","D","E","F","G","H","I","J","K","L","M",
                "N","O","P","Q","R","S","T","U","V","W","X","Y","Z">>
LowerAlpha == <<"a","b","c","d","e","f","g","h","i","j","k","l","m",
                "n","o","p","q","r","s","t","u","v","w","x","y","z">>

IndexIn(alpha, c) ==
    IF \E i \in 1..Len(alpha) : alpha[i] = c
    THEN CHOOSE i \in 1..Len(alpha) : alpha[i] = c
    ELSE 0

LowerChar(c) == IF IndexIn(UpperAlpha, c) > 0 THEN LowerAlpha[IndexIn(UpperAlpha, c)] ELSE c
UpperChar(c) == IF IndexIn(LowerAlpha, c) > 0 THEN UpperAlpha[IndexIn(LowerAlpha, c)] ELSE c

toLowerCase(s) == [i \in 1..Len(s) |-> LowerChar(s[i])]
toUpperCase(s) == [i \in 1..Len(s) |-> UpperChar(s[i])]

\* String.prototype.includes: kw occurs in s as a contiguous substring.
includes(s, kw) ==
    \E i \in 0..(Len(s) - Len(kw)) : \A j \in 1..Len(kw) : s[i + j] = kw[j]

\* String.prototype.trim: strips leading and trailing white space.
RECURSIVE trimStart(_)
trimStart(s) == IF s /= <<>> /\ Head(s) = " " THEN trimStart(Tail(s)) ELSE s
RECURSIVE trimEnd(_)
trimEnd(s) ==
    IF s /= <<>> /\ s[Len(s)] = " " THEN trimEnd(SubSeq(s, 1, Len(s) - 1)) ELSE s
trim_Nothing(s) == s

trim(s) == trimEnd(trimStart(s))

-----------------------------------------------------------------------------
(* Trades.tsx: calculatePremiumCost.                                       *)

AssetTypes == {"Option", "Stock", "Spread"}
AllActions == {"STO", "BTO", "BTC", "STC", "Buy", "Sell", "Expired", "Assigned"}

\* Largest price (in cents) and quantity of the trades the function is applied to.
MaxPrice == 3
MaxQty == 2

calculatePremiumCost_SpreadAsStock(trade) ==
    LET multiplier == IF trade.asset_type = "Option" THEN 100 ELSE 1
        isCredit == trade.action \in {"STO", "STC", "Sell", "Expired", "Assigned"}
    IN  (IF isCredit THEN 1 ELSE -1) * trade.price_per_unit * trade.quantity * multiplier

calculatePremiumCost(trade) ==
    LET multiplier == IF trade.asset_type = "Stock" THEN 1 ELSE 100
        isCredit == trade.action \in {"STO", "STC", "Sell", "Expired", "Assigned"}
    IN  (IF isCredit THEN 1 ELSE -1) * trade.price_per_unit * trade.quantity * multiplier

PremTrades ==
    [asset_type : AssetTypes, action : AllActions,
     price_per_unit : 0..MaxPrice, quantity : 1..MaxQty]

notPremVars == <<formVars, detVars, importVars, tableVars, cacheVars, viewVars>>

PremIdle ==
    /\ premTrade = [asset_type |-> "Option", action |-> "STO",
                    price_per_unit |-> 0, quantity |-> 1]
    /\ premCost = None

PremInit ==
    /\ premTrade \in PremTrades
    /\ premCost = None

\* A table row is rendered: the Premium/Cost cell of the trade is computed.
RenderPremiumCell ==
    /\ premCost = None
    /\ premCost' = Some(calculatePremiumCost(premTrade))
    /\ UNCHANGED <<premTrade, notPremVars>>

\* Another row is rendered.
NextRow ==
    /\ premCost /= None
    /\ premTrade' \in PremTrades
    /\ premCost' = None
    /\ UNCHANGED notPremVars

PremNext == RenderPremiumCell \/ NextRow

-----------------------------------------------------------------------------
(* AddTrade.tsx: the Add Trade form.                                       *)

\* getDefaultExpiration() and today's date, as the page computes them on mount.
DefaultExpiration == "2026-12-02"
Today == "2026-11-02"

\* What the user can enter.  A number input delivers parseFloat/parseInt of its
\* text: None stands for NaN (an empty or non-numeric text).
TickerInputs == { <<>>, <<" ">>, <<"a", "b">> }
StrikeInputs == { None, Some(0), Some(150) }
Strike2Inputs == { None, Some(110) }
ExpirationInputs == { "", DefaultExpiration }
TradeDateInputs == { Today }
QuantityInputs == { None, Some(2) }
PriceInputs == { None, Some(200) }
FeesInputs == { None, Some(65) }
NotesInputs == { "", "x" }

\* The open positions the server can return to the page (GET /positions/options).
SamplePositions ==
    << [id |-> 1, ticker |-> <<"A", "B">>, option_type |-> "Call", strike_price |-> 100],
       [id |-> 2, ticker |-> <<"C", "D">>, option_type |-> "Put", strike_price |-> 50] >>
PositionLists == { <<>>, SamplePositions }

\* Number of trades the server creates for the page.
MaxCreates == 1

InitialForm ==
    [ticker |-> <<>>, asset_type |-> "Option", option_type |-> Some("Call"),
     action |-> "STO", strike_price |-> Some(100), strike_price_2 |-> None,
     expiration_date |-> Some(DefaultExpiration), trade_date |-> Today,
     quantity |-> 1, price_per_unit |-> 0, fees |-> 0, notes |-> "",
     linked_trade_id |-> None]

FormInit ==
    /\ form = InitialForm
    /\ openPositions = <<>>
    /\ createPending = FALSE
    /\ createReq = None
    /\ createResp = None
    /\ successMessage = None
    /\ nextId = 1
    /\ alertMsg = None

\* updateForm: setForm({ ...form, ...updates }); updates is a record of some fields.
updateForm(updates) ==
    [k \in DOMAIN form |-> IF k \in DOMAIN updates THEN updates[k] ELSE form[k]]

matchingPositions ==
    SelectSeq(openPositions,
              LAMBDA p : form.ticker = <<>> \/ p.ticker = toUpperCase(form.ticker))

getActions ==
    CASE form.asset_type = "Stock" -> <<"Buy", "Sell">>
      [] form.asset_type = "Spread" -> <<"BTO", "STO", "BTC", "STC">>
      [] OTHER -> <<"STO", "BTO", "BTC", "STC">>

showLinkOption == form.asset_type = "Option" /\ form.action \in {"BTC", "STC"}

\* The page handles an event only while no alert() dialog is open, and (an
\* interleaving reduction: the request is a copy, later edits cannot change it)
\* the server takes a request before the next event.
FormIdle == alertMsg = None /\ createReq = None

notFormVars == <<premVars, detVars, importVars, tableVars, cacheVars, viewVars>>
formFrame == <<openPositions, createPending, createReq, createResp, successMessage,
               nextId, alertMsg, notFormVars>>

\* The update of the asset-type buttons' onClick.
AssetTypeUpdate_KeepOptionType(type) ==
    [asset_type |-> type,
     action |-> IF type = "Stock" THEN "Buy" ELSE "STO",
     option_type |-> IF type = "Stock" THEN form.option_type ELSE Some("Call"),
     strike_price |-> IF type = "Stock" THEN None
                      ELSE IF form.strike_price = None THEN Some(100)
                      ELSE form.strike_price,
     strike_price_2 |-> IF type = "Spread" THEN Some(110) ELSE None,
     expiration_date |-> IF type = "Stock" THEN None ELSE form.expiration_date]

AssetTypeUpdate_KeepStrike2(type) ==
    [asset_type |-> type,
     action |-> IF type = "Stock" THEN "Buy" ELSE "STO",
     option_type |-> IF type = "Stock" THEN None ELSE Some("Call"),
     strike_price |-> IF type = "Stock" THEN None
                      ELSE IF form.strike_price = None THEN Some(100)
                      ELSE form.strike_price,
     strike_price_2 |-> IF type = "Spread" THEN Some(110) ELSE form.strike_price_2,
     expiration_date |-> IF type = "Stock" THEN None ELSE form.expiration_date]

AssetTypeUpdate_KeepAction(type) ==
    [asset_type |-> type,
     option_type |-> IF type = "Stock" THEN None ELSE Some("Call"),
     strike_price |-> IF type = "Stock" THEN None
                      ELSE IF form.strike_price = None THEN Some(100)
                      ELSE form.strike_price,
     strike_price_2 |-> IF type = "Spread" THEN Some(110) ELSE None,
     expiration_date |-> IF type = "Stock" THEN None ELSE form.expiration_date]

AssetTypeUpdate(type) ==
    [asset_type |-> type,
     action |-> IF type = "Stock" THEN "Buy" ELSE "STO",
     option_type |-> IF type = "Stock" THEN None ELSE Some("Call"),
     strike_price |-> IF type = "Stock" THEN None
                      ELSE IF form.strike_price = None THEN Some(100)
                      ELSE form.strike_price,
     strike_price_2 |-> IF type = "Spread" THEN Some(110) ELSE None,
     expiration_date |-> IF type = "Stock" THEN None ELSE form.expiration_date]

ClickAssetType ==
    /\ FormIdle
    /\ \E type \in AssetTypes : form' = updateForm(AssetTypeUpdate(type))
    /\ UNCHANGED formFrame

TypeTicker ==
    /\ FormIdle
    /\ \E v \in TickerInputs : form' = updateForm([ticker |-> toUpperCase(v)])
    /\ UNCHANGED formFrame

ClickOptionType ==
    /\ FormIdle
    /\ form.asset_type /= "Stock"
    /\ \E type \in {"Call", "Put"} : form' = updateForm([option_type |-> Some(type)])
    /\ UNCHANGED formFrame

SelectAction ==
    /\ FormIdle
    /\ \E a \in RangeOf(getActions) : form' = updateForm([action |-> a])
    /\ UNCHANGED formFrame

\* parseFloat(e.target.value) || null
FloatOrNull(v) == IF v = None \/ v = Some(0) THEN None ELSE v
\* parseFloat(e.target.value) || 0, parseInt(e.target.value) || 1
NumberOr(v, d) == IF v = None \/ v = Some(0) THEN d ELSE v[1]

TypeStrike ==
    /\ FormIdle
    /\ form.asset_type /= "Stock"
    /\ \E v \in StrikeInputs : form' = updateForm([strike_price |-> FloatOrNull(v)])
    /\ UNCHANGED formFrame

TypeStrike2 ==
    /\ FormIdle
    /\ form.asset_type = "Spread"
    /\ \E v \in Strike2Inputs : form' = updateForm([strike_price_2 |-> FloatOrNull(v)])
    /\ UNCHANGED formFrame

\* e.target.value || null
TypeExpiration ==
    /\ FormIdle
    /\ form.asset_type /= "Stock"
    /\ \E v \in ExpirationInputs :
          form' = updateForm([expiration_date |-> IF v = "" THEN None ELSE Some(v)])
    /\ UNCHANGED formFrame

TypeTradeDate ==
    /\ FormIdle
    /\ \E v \in TradeDateInputs : form' = updateForm([trade_date |-> v])
    /\ UNCHANGED formFrame

TypeQuantity ==
    /\ FormIdle
    /\ \E v \in QuantityInputs : form' = updateForm([quantity |-> NumberOr(v, 1)])
    /\ UNCHANGED formFrame

TypePrice ==
    /\ FormIdle
    /\ \E v \in PriceInputs : form' = updateForm([price_per_unit |-> NumberOr(v, 0)])
    /\ UNCHANGED formFrame

TypeFees ==
    /\ FormIdle
    /\ \E v \in FeesInputs : form' = updateForm([fees |-> NumberOr(v, 0)])
    /\ UNCHANGED formFrame

TypeNotes ==
    /\ FormIdle
    /\ \E v \in NotesInputs : form' = updateForm([notes |-> v])
    /\ UNCHANGED formFrame

\* The "Link to Opening Trade" select: None, or one of the matching positions.
LinkSelectShown == showLinkOption /\ Len(matchingPositions) > 0

SelectLink ==
    /\ FormIdle
    /\ LinkSelectShown
    /\ \E v \in {None} \cup { Some(p.id) : p \in RangeOf(matchingPositions) } :
          form' = updateForm([linked_trade_id |-> v])
    /\ UNCHANGED formFrame

\* The openPositions query delivers a (re)fetched list.
FetchOpenPositions ==
    /\ FormIdle
    /\ openPositions' \in PositionLists \ {openPositions}
    /\ UNCHANGED <<form, createPending, createReq, createResp, successMessage,
                   nextId, alertMsg,
                   notFormVars>>

\* The payload handleSubmit hands to createMutation.mutate.
SubmitPayload == updateForm([ticker |-> toUpperCase(form.ticker)])

\* The submit button is disabled while the mutation is pending.
HandleSubmit ==
    /\ FormIdle
    /\ ~createPending
    /\ IF trim(form.ticker) = <<>>
       THEN /\ alertMsg' = Some("Please enter a ticker symbol")
            /\ UNCHANGED <<createPending, createReq,
                   notFormVars>>
       ELSE /\ createPending' = TRUE
            /\ createReq' = Some(SubmitPayload)
            /\ UNCHANGED alertMsg
    /\ UNCHANGED <<form, openPositions, createResp, successMessage, nextId,
                   notFormVars>>

DismissAlert ==
    /\ alertMsg /= None
    /\ alertMsg' = None
    /\ UNCHANGED <<form, openPositions, createPending, createReq, createResp,
                   successMessage, nextId,
                   notFormVars>>

\* POST /trades: the server stores the trade and answers with its id, or rejects
\* the request.
ServerCreate ==
    /\ createReq /= None
    /\ createReq' = None
    /\ \/ /\ nextId <= MaxCreates
          /\ createResp' = Some([ok |-> TRUE, id |-> nextId])
          /\ nextId' = nextId + 1
       \/ /\ createResp' = Some([ok |-> FALSE, id |-> 0])
          /\ UNCHANGED nextId
    /\ UNCHANGED <<form, openPositions, createPending, successMessage, alertMsg,
                   notFormVars>>

\* createMutation.onSuccess.  The callback is the one of the latest render (the
\* observer passes its options on to the pending mutation), so form is the
\* current form.  The invalidated openPositions query refetches: FetchOpenPositions.
ResetForm_Initial == InitialForm

ResetForm ==
    updateForm([ticker |-> <<>>, price_per_unit |-> 0, fees |-> 0, notes |-> "",
                linked_trade_id |-> None])

CreateSuccess ==
    /\ alertMsg = None
    /\ createResp /= None /\ createResp[1].ok
    /\ successMessage' = Some(createResp[1].id)
    /\ form' = ResetForm
    /\ createPending' = FALSE
    /\ createResp' = None
    /\ UNCHANGED <<openPositions, createReq, nextId, alertMsg,
                   notFormVars>>

CreateError ==
    /\ alertMsg = None
    /\ createResp /= None /\ ~createResp[1].ok
    /\ createPending' = FALSE
    /\ createResp' = None
    /\ UNCHANGED <<form, openPositions, createReq, successMessage, nextId, alertMsg,
                   notFormVars>>

\* setTimeout(() => setSuccessMessage(null), 3000)
SuccessTimeout ==
    /\ alertMsg = None
    /\ successMessage /= None
    /\ successMessage' = None
    /\ UNCHANGED <<form, openPositions, createPending, createReq, createResp,
                   nextId, alertMsg,
                   notFormVars>>

FormNext ==
    \/ ClickAssetType \/ TypeTicker \/ ClickOptionType \/ SelectAction
    \/ TypeStrike \/ TypeStrike2 \/ TypeExpiration \/ TypeTradeDate
    \/ TypeQuantity \/ TypePrice \/ TypeFees \/ TypeNotes \/ SelectLink
    \/ FetchOpenPositions \/ HandleSubmit \/ DismissAlert
    \/ ServerCreate \/ CreateSuccess \/ CreateError \/ SuccessTimeout

-----------------------------------------------------------------------------
(* ImportCSV.tsx: column auto-detection (previewMutation.onSuccess).       *)

MappingFields ==
    {"ticker_col", "action_col", "strike_col", "exp_date_col", "trade_date_col",
     "quantity_col", "price_col", "expired_col", "notes_col"}

\* The keyword lists of the findCol calls.
Keywords ==
    [ticker_col |-> <<<<"o", "p", "t", "i", "o", "n">>, <<"t", "i", "c", "k", "e", "r">>, <<"s", "y", "m", "b", "o", "l">>>>,
     action_col |-> <<<<"a", "c", "t", "i", "o", "n">>>>,
     strike_col |-> <<<<"s", "t", "r", "i", "k", "e">>>>,
     exp_date_col |-> <<<<"e", "x", "p", "i", "r">>, <<"e", "x", "p", " ", "d", "a", "t", "e">>>>,
     trade_date_col |-> <<<<"t", "r", "a", "n", "s", "a", "c", "t", "i", "o", "n">>, <<"t", "r", "a", "d", "e", " ", "d", "a", "t", "e">>, <<"d", "a", "t", "e">>>>,
     quantity_col |-> <<<<"c", "o", "n", "t", "r", "a", "c", "t">>, <<"q", "u", "a", "n", "t", "i", "t", "y">>, <<"q", "t", "y">>, <<"#">>>>,
     price_col |-> <<<<"p", "r", "i", "c", "e">>, <<"p", "r", "e", "m", "i", "u", "m">>>>,
     expired_col |-> <<<<"e", "x", "p", "i", "r", "e", "d">>>>,
     notes_col |-> <<<<"r", "e", "m", "a", "r", "k">>, <<"n", "o", "t", "e">>>>]

\* keywords.some((kw) => c.toLowerCase().includes(kw))
someKeyword_CaseSensitive(keywords, c) ==
    \E k \in 1..Len(keywords) : includes(c, keywords[k])

someKeyword(keywords, c) ==
    \E k \in 1..Len(keywords) : includes(toLowerCase(c), keywords[k])

\* cols.find(...) || '': the first column, in header order, that holds a keyword.
RECURSIVE findCol(_, _)
findCol(cols, keywords) ==
    IF cols = <<>> THEN <<>>
    ELSE IF someKeyword(keywords, Head(cols)) THEN Head(cols)
    ELSE findCol(Tail(cols), keywords)

AutoDetect(cols) ==
    [ticker_col |-> findCol(cols, Keywords.ticker_col),
     action_col |-> findCol(cols, Keywords.action_col),
     strike_col |-> findCol(cols, Keywords.strike_col),
     exp_date_col |-> findCol(cols, Keywords.exp_date_col),
     trade_date_col |-> findCol(cols, Keywords.trade_date_col),
     quantity_col |-> findCol(cols, Keywords.quantity_col),
     price_col |-> findCol(cols, Keywords.price_col),
     expired_col |-> findCol(cols, Keywords.expired_col),
     notes_col |-> findCol(cols, Keywords.notes_col)]

\* Header names a CSV file may carry, and the longest header row examined.
HeaderPool ==
    {<<"T", "i", "c", "k", "e", "r">>,
     <<"A", "C", "T", "I", "O", "N">>,
     <<"D", "a", "t", "e">>,
     <<"E", "x", "p", " ", "D", "a", "t", "e">>,
     <<"T", "r", "a", "n", "s", "a", "c", "t", "i", "o", "n">>,
     <<"Q", "t", "y">>,
     <<"P", "r", "e", "m", "i", "u", "m">>,
     <<"E", "x", "p", "i", "r", "e", "d">>,
     <<"M", "e", "m", "o">>}
MaxCols == 2

RECURSIVE SeqsUpTo(_, _)
SeqsUpTo(S, n) ==
    IF n = 0 THEN {<<>>}
    ELSE LET shorter == SeqsUpTo(S, n - 1)
         IN  shorter \cup { Append(r, h) : r \in shorter, h \in S }

HeaderRows == SeqsUpTo(HeaderPool, MaxCols)

notDetVars == <<premVars, formVars, importVars, tableVars, cacheVars, viewVars>>

DetIdle == detCols = <<>> /\ detMapping = None

DetInit == detCols \in HeaderRows /\ detMapping = None

\* A preview response with these columns arrives: the mapping is detected.
Detect ==
    /\ detMapping = None
    /\ detMapping' = Some(AutoDetect(detCols))
    /\ UNCHANGED <<detCols, notDetVars>>

\* Another file is previewed.
NextHeaderRow ==
    /\ detMapping /= None
    /\ detCols' \in HeaderRows
    /\ detMapping' = None
    /\ UNCHANGED notDetVars

DetNext == Detect \/ NextHeaderRow

-----------------------------------------------------------------------------
(* ImportCSV.tsx: the Import CSV page.                                     *)

\* The CSV files the user can select: the header row and the data rows, a row
\* holding the cells of the five required columns ("" is an empty cell, None a
\* number that does not parse).
CsvFiles ==
    << [columns |-> <<<<"T", "i", "c", "k", "e", "r">>, <<"A", "C", "T", "I", "O", "N">>, <<"D", "a", "t", "e">>, <<"Q", "t", "y">>, <<"P", "r", "i", "c", "e">>>>,
        rows |-> << [ticker |-> "GH", action |-> "Buy", trade_date |-> "2026-11-02",
                      quantity |-> Some(5), price |-> Some(1000)],
                     [ticker |-> "GH", action |-> "XYZ", trade_date |-> "2026-11-02",
                      quantity |-> Some(1), price |-> Some(100)],
                     [ticker |-> "GH", action |-> "STO", trade_date |-> "2026-11-02",
                      quantity |-> Some(1), price |-> Some(100)] >>],
       [columns |-> <<<<"E", "x", "p", " ", "D", "a", "t", "e">>, <<"S", "y", "m", "b", "o", "l">>, <<"T", "r", "a", "n", "s", "a", "c", "t", "i", "o", "n">>>>,
        rows |-> << [ticker |-> "", action |-> "Buy", trade_date |-> "2026-11-02",
                      quantity |-> Some(1), price |-> Some(100)],
                     [ticker |-> "KL", action |-> "Sell", trade_date |-> "n/a",
                      quantity |-> None, price |-> Some(100)] >>] >>
FileIds == DOMAIN CsvFiles

\* Number of column selects the user changes after a preview arrived.
MaxMappingEdits == 1

EmptyMapping == [k \in MappingFields |-> <<>>]

ImportInit ==
    /\ file = None
    /\ preview = None
    /\ mapping = EmptyMapping
    /\ result = None
    /\ previewInFlight = {}
    /\ importPending = FALSE
    /\ importReq = None
    /\ importResp = None
    /\ importAlert = None
    /\ mappingEdits = 0

notImportVars == <<premVars, formVars, detVars, tableVars, cacheVars, viewVars>>

\* The page handles an event only while no alert() dialog is open, and (an
\* interleaving reduction) the server takes an import request before the next event.
ImportIdle == importAlert = None /\ importReq = None

\* handleFileChange; the file dialog may be cancelled (no file).
HandleFileChange ==
    /\ ImportIdle
    /\ \E selectedFile \in {None} \cup { Some(f) : f \in FileIds } :
          IF selectedFile /= None
          THEN /\ file' = selectedFile
               /\ preview' = None
               /\ result' = None
               /\ previewInFlight' = previewInFlight \cup {selectedFile[1]}
          ELSE UNCHANGED <<file, preview, result, previewInFlight>>
    /\ UNCHANGED <<mapping, importPending, importReq, importResp, importAlert,
                   mappingEdits, notImportVars>>

\* POST /import/preview: the header row and the row count of the file.
ServerPreview(f) ==
    [columns |-> CsvFiles[f].columns, row_count |-> Len(CsvFiles[f].rows)]

\* previewMutation.onSuccess, for any of the preview requests in flight.
PreviewSuccess ==
    /\ importAlert = None
    /\ \E f \in previewInFlight :
          LET data == ServerPreview(f)
          IN  /\ preview' = Some(data)
              /\ mapping' = AutoDetect(data.columns)
              /\ previewInFlight' = previewInFlight \ {f}
    /\ mappingEdits' = 0
    /\ UNCHANGED <<file, result, importPending, importReq, importResp, importAlert,
                   notImportVars>>

\* A preview request fails; the page shows the error.
PreviewError ==
    /\ importAlert = None
    /\ \E f \in previewInFlight : previewInFlight' = previewInFlight \ {f}
    /\ UNCHANGED <<file, preview, mapping, result, importPending, importReq,
                   importResp, importAlert, mappingEdits, notImportVars>>

\* One of the nine column selects, rendered while a preview is shown.
SelectColumn ==
    /\ ImportIdle
    /\ preview /= None
    /\ mappingEdits < MaxMappingEdits
    /\ \E k \in MappingFields, c \in {<<>>} \cup RangeOf(preview[1].columns) :
          mapping' = [mapping EXCEPT ![k] = c]
    /\ mappingEdits' = mappingEdits + 1
    /\ UNCHANGED <<file, preview, result, previewInFlight, importPending, importReq,
                   importResp, importAlert, notImportVars>>

RequiredColumns_NoPrice == <<"ticker_col", "action_col", "trade_date_col", "quantity_col">>

RequiredColumns ==
    <<"ticker_col", "action_col", "trade_date_col", "quantity_col", "price_col">>

\* handleImport; the button is rendered with the preview and disabled while the
\* import is pending.  importMutation's mutationFn sends the current file and mapping.
HandleImport ==
    /\ ImportIdle
    /\ preview /= None
    /\ ~importPending
    /\ LET missing == SelectSeq(RequiredColumns, LAMBDA key : mapping[key] = <<>>)
       IN  IF Len(missing) > 0
           THEN /\ importAlert' = Some("Please map required columns")
                /\ UNCHANGED <<importPending, importReq>>
           ELSE /\ importPending' = TRUE
                /\ importReq' = Some([file |-> file[1], mapping |-> mapping])
                /\ UNCHANGED importAlert
    /\ UNCHANGED <<file, preview, mapping, result, previewInFlight, importResp,
                   mappingEdits, notImportVars>>

DismissImportAlert ==
    /\ importAlert /= None
    /\ importAlert' = None
    /\ UNCHANGED <<file, preview, mapping, result, previewInFlight, importPending,
                   importReq, importResp, mappingEdits, notImportVars>>

\* POST /import/process, one row: the reason the row is rejected, if any.
ActionTokens == {"STO", "BTO", "BTC", "STC", "Buy", "Sell", "Expired", "Assigned"}
ValidDates == {"2026-11-02"}

RowError(row) ==
    IF row.ticker = "" \/ row.action = "" \/ row.trade_date = ""
    THEN Some("missing required field")
    ELSE IF row.action \notin ActionTokens THEN Some("unrecognized action")
    ELSE IF row.trade_date \notin ValidDates THEN Some("unparseable date")
    ELSE IF row.quantity = None \/ row.price = None THEN Some("unparseable number")
    ELSE None

\* The trade-create request of an accepted row.
RowTrade(row) ==
    [ticker |-> row.ticker,
     asset_type |-> IF row.action \in {"Buy", "Sell"} THEN "Stock" ELSE "Option",
     action |-> row.action, trade_date |-> row.trade_date,
     quantity |-> row.quantity[1], price_per_unit |-> row.price[1], fees |-> 0,
     linked_trade_id |-> None]

\* The rows are processed one by one: a rejected row adds an error naming the
\* row and processing goes on with the next row.
RECURSIVE ProcessRows_StopAtError(_, _, _)
ProcessRows_StopAtError(rows, rowNo, done) ==
    IF rows = <<>> THEN done
    ELSE LET err == RowError(Head(rows))
         IN  IF err = None
             THEN ProcessRows_StopAtError(Tail(rows), rowNo + 1,
                     [done EXCEPT !.created = Append(@, RowTrade(Head(rows)))])
             ELSE [done EXCEPT !.errors = Append(@, [row |-> rowNo, reason |-> err[1]])]

RECURSIVE ProcessRows(_, _, _)
ProcessRows(rows, rowNo, done) ==
    IF rows = <<>> THEN done
    ELSE LET err == RowError(Head(rows))
         IN  ProcessRows(Tail(rows), rowNo + 1,
                 IF err = None
                 THEN [done EXCEPT !.created = Append(@, RowTrade(Head(rows)))]
                 ELSE [done EXCEPT !.errors =
                          Append(@, [row |-> rowNo, reason |-> err[1]])])

\* The trades created from a file and the ImportResult returned.
ImportOutcome(f) ==
    LET done == ProcessRows(CsvFiles[f].rows, 1, [created |-> <<>>, errors |-> <<>>])
    IN  [created |-> done.created,
         result |-> [imported |-> Len(done.created), errors |-> done.errors,
                     total_errors |-> Len(done.errors)]]

ServerImportResult(f) == ImportOutcome(f).result

ServerImport ==
    /\ importReq /= None
    /\ importReq' = None
    /\ \/ importResp' = Some([ok |-> TRUE, data |-> ServerImportResult(importReq[1].file)])
       \/ importResp' = Some([ok |-> FALSE, data |-> None])
    /\ UNCHANGED <<file, preview, mapping, result, previewInFlight, importPending,
                   importAlert, mappingEdits, notImportVars>>

\* importMutation.onSuccess
ImportSuccess ==
    /\ importAlert = None
    /\ importResp /= None /\ importResp[1].ok
    /\ result' = Some(importResp[1].data)
    /\ importPending' = FALSE
    /\ importResp' = None
    /\ UNCHANGED <<file, preview, mapping, previewInFlight, importReq, importAlert,
                   mappingEdits, notImportVars>>

ImportError ==
    /\ importAlert = None
    /\ importResp /= None /\ ~importResp[1].ok
    /\ importPending' = FALSE
    /\ importResp' = None
    /\ UNCHANGED <<file, preview, mapping, result, previewInFlight, importReq,
                   importAlert, mappingEdits, notImportVars>>

ImportNext ==
    \/ HandleFileChange \/ PreviewSuccess \/ PreviewError \/ SelectColumn
    \/ HandleImport \/ DismissImportAlert \/ ServerImport \/ ImportSuccess
    \/ ImportError

-----------------------------------------------------------------------------
\* The Trades page's sort, page index, mutations and close dialog as mounted.
InitialCloseForm ==
    [action_type |-> "Close", close_date |-> "2026-11-02", close_price |-> 0,
     close_fees |-> 0]
IdleMutation == [status |-> "idle", variables |-> None]

isPending_Never(m) == FALSE

\* mutation.isPending
isPending(m) == m.status = "pending"
TradesPageMounted ==
    /\ sortKey = "trade_date" /\ sortAsc = FALSE /\ tablePage = 0
    /\ tradesFetching = FALSE /\ deleteMutation = IdleMutation
    /\ closeModalTrade = None /\ closeForm = InitialCloseForm
    /\ closeMutation = IdleMutation
    /\ inFlight = [kind \in {"close", "delete"} |-> 0]
TableIdle ==
    /\ trades = <<>> /\ tradesLoaded = FALSE /\ filters = None /\ TradesPageMounted
CacheIdle0 ==
    /\ ledgerNextId = 1 /\ cache = None /\ fetching = {}
    /\ page = "Dashboard" /\ mutation = None /\ writes = 0
CacheIdle == ledger = <<>> /\ CacheIdle0

-----------------------------------------------------------------------------
(* Trades.tsx: the Trade History table and its filters.                    *)

\* Trades the ledger may hold when the page is opened.
TradePool ==
    << [id |-> 1, ticker |-> "AB", asset_type |-> "Option", action |-> "STO"],
       [id |-> 2, ticker |-> "AB", asset_type |-> "Option", action |-> "BTC"],
       [id |-> 3, ticker |-> "AB", asset_type |-> "Stock",  action |-> "Buy"],
       [id |-> 4, ticker |-> "CD", asset_type |-> "Option", action |-> "STO"],
       [id |-> 5, ticker |-> "CD", asset_type |-> "Spread", action |-> "STO"],
       [id |-> 6, ticker |-> "CD", asset_type |-> "Stock",  action |-> "Sell"] >>

Ledgers ==
    { SelectSeq(TradePool, LAMBDA t : t.id \in ids) : ids \in SUBSET (DOMAIN TradePool) }

\* getTrades: a filter is sent as a query parameter only when it is given and truthy.
getTradesParams(apiFilters) ==
    IF apiFilters = None THEN [k \in {} |-> ""]
    ELSE LET given == { k \in DOMAIN apiFilters[1] : apiFilters[1][k] /= "" }
         IN  [k \in given |-> apiFilters[1][k]]

\* GET /trades: the trades equal to every parameter sent.
ServerListTrades(stored, params) ==
    SelectSeq(stored, LAMBDA t : \A k \in DOMAIN params : t[k] = params[k])

\* The option lists of the three filter selects.
TickerFilterOptions == {"All"} \cup { TradePool[i].ticker : i \in DOMAIN TradePool }
AssetTypeFilterOptions == {"All", "Option", "Stock", "Spread"}
ActionFilterOptions ==
    {"All", "STO", "BTO", "BTC", "STC", "Buy", "Sell", "Expired", "Assigned"}

AllFilters == [ticker |-> "All", asset_type |-> "All", action |-> "All"]

TableInit ==
    /\ ledger \in Ledgers
    /\ trades = <<>>
    /\ tradesLoaded = FALSE
    /\ filters = AllFilters
    /\ TradesPageMounted

notTableVars == <<premVars, formVars, detVars, importVars, viewVars>>
tableFrame == <<ledgerNextId, cache, fetching, page, mutation, writes, notTableVars>>

sortVars == <<sortKey, sortAsc>>
closeVars == <<closeModalTrade, closeForm, closeMutation>>

\* useQuery(['trades'], () => getTrades()) resolves.
TradesLoaded ==
    /\ ~tradesLoaded
    /\ trades' = ServerListTrades(ledger, getTradesParams(None))
    /\ tradesLoaded' = TRUE
    /\ UNCHANGED <<ledger, filters, sortVars, tablePage, tradesFetching,
                   deleteMutation, closeVars, inFlight, tableFrame>>

\* The selects, the table and the pagination buttons are rendered once the
\* trades are loaded and there is at least one; the close dialog covers them.
\* (An interleaving reduction: the user acts on them while no delete request
\* and no refetch of the list is under way.)
FiltersShown ==
    /\ tradesLoaded /\ Len(trades) > 0 /\ closeModalTrade = None
    /\ deleteMutation.status /= "pending" /\ ~tradesFetching

SetTickerFilter ==
    /\ FiltersShown
    /\ \E v \in TickerFilterOptions : filters' = [filters EXCEPT !.ticker = v]
    /\ tablePage' = 0
    /\ UNCHANGED <<ledger, trades, tradesLoaded, sortVars, tradesFetching,
                   deleteMutation, closeVars, inFlight, tableFrame>>

SetAssetTypeFilter ==
    /\ FiltersShown
    /\ \E v \in AssetTypeFilterOptions : filters' = [filters EXCEPT !.asset_type = v]
    /\ tablePage' = 0
    /\ UNCHANGED <<ledger, trades, tradesLoaded, sortVars, tradesFetching,
                   deleteMutation, closeVars, inFlight, tableFrame>>

SetActionFilter ==
    /\ FiltersShown
    /\ \E v \in ActionFilterOptions : filters' = [filters EXCEPT !.action = v]
    /\ tablePage' = 0
    /\ UNCHANGED <<ledger, trades, tradesLoaded, sortVars, tradesFetching,
                   deleteMutation, closeVars, inFlight, tableFrame>>

\* The rows the table shows, before sorting and paging.
filtered_FirstSetFilterOnly ==
    IF filters.ticker /= "All"
    THEN SelectSeq(trades, LAMBDA t : t.ticker = filters.ticker)
    ELSE IF filters.asset_type /= "All"
    THEN SelectSeq(trades, LAMBDA t : t.asset_type = filters.asset_type)
    ELSE IF filters.action /= "All"
    THEN SelectSeq(trades, LAMBDA t : t.action = filters.action)
    ELSE trades

filtered ==
    LET byTicker ==
            IF filters.ticker /= "All"
            THEN SelectSeq(trades, LAMBDA t : t.ticker = filters.ticker)
            ELSE trades
        byAssetType ==
            IF filters.asset_type /= "All"
            THEN SelectSeq(byTicker, LAMBDA t : t.asset_type = filters.asset_type)
            ELSE byTicker
    IN  IF filters.action /= "All"
        THEN SelectSeq(byAssetType, LAMBDA t : t.action = filters.action)
        ELSE byAssetType

TableNext == TradesLoaded \/ SetTickerFilter \/ SetAssetTypeFilter \/ SetActionFilter


-----------------------------------------------------------------------------
(* The ledger behind the API, as the views derive their results from it.   *)

OpeningActions == {"STO", "BTO"}
ClosingActions == {"BTC", "STC", "Expired", "Assigned"}
CreditActions == {"STO", "STC", "Sell", "Expired", "Assigned"}

RECURSIVE SumTo(_, _)
SumTo(f, n) == IF n = 0 THEN 0 ELSE f[n] + SumTo(f, n - 1)

\* Sum of amount(t) over the trades of a ledger.
SumOver(stored, amount(_)) ==
    SumTo([i \in 1..Len(stored) |-> amount(stored[i])], Len(stored))

Multiplier(t) == IF t.asset_type = "Stock" THEN 1 ELSE 100

\* GET /tickers: the distinct tickers of the ledger.
ServerTickers(stored) == { stored[i].ticker : i \in 1..Len(stored) }

Remaining_FirstCloseOnly(stored, t) ==
    LET closings == SelectSeq(stored, LAMBDA c :
                        c.action \in ClosingActions /\ c.linked_trade_id = Some(t.id))
    IN  t.quantity - (IF closings = <<>> THEN 0 ELSE closings[1].quantity)

\* Quantity of an opening trade not yet closed by the trades linked to it.
Remaining(stored, t) ==
    t.quantity - SumOver(stored, LAMBDA c :
                    IF c.action \in ClosingActions /\ c.linked_trade_id = Some(t.id)
                    THEN c.quantity ELSE 0)

ServerOpenPositions_OriginalQuantity(stored) ==
    { [id |-> t.id, ticker |-> t.ticker, action |-> t.action,
       quantity |-> t.quantity, price_per_unit |-> t.price_per_unit] :
        t \in { u \in RangeOf(stored) :
                  /\ u.asset_type \in {"Option", "Spread"}
                  /\ u.action \in OpeningActions
                  /\ Remaining(stored, u) > 0 } }

\* GET /positions/options: the opening option trades with quantity remaining.
ServerOpenPositions(stored) ==
    { [id |-> t.id, ticker |-> t.ticker, action |-> t.action,
       quantity |-> Remaining(stored, t), price_per_unit |-> t.price_per_unit] :
        t \in { u \in RangeOf(stored) :
                  /\ u.asset_type \in {"Option", "Spread"}
                  /\ u.action \in OpeningActions
                  /\ Remaining(stored, u) > 0 } }

StockStep_RealizeOnBuy(position, t, ticker) ==
    IF t.asset_type /= "Stock" \/ t.ticker /= ticker THEN position
    ELSE IF t.action = "Buy"
    THEN [shares |-> position.shares + t.quantity,
          cost_basis |-> position.cost_basis + t.quantity * t.price_per_unit,
          realized |-> position.realized - t.quantity * t.price_per_unit - t.fees]
    ELSE IF t.action = "Sell"
    THEN LET removed == IF position.shares > 0
                        THEN (position.cost_basis * t.quantity) \div position.shares
                        ELSE 0
         IN  [shares |-> position.shares - t.quantity,
              cost_basis |-> position.cost_basis - removed,
              realized |-> position.realized
                               + t.price_per_unit * t.quantity - removed - t.fees]
    ELSE position

\* One stock trade applied to a ticker's running position.  A Buy adds its
\* shares and its cost; a Sell removes the cost of the shares sold at the
\* weighted average cost and realizes the proceeds less that cost and its fees
\* (with no shares held there is no cost to remove).
StockStep(position, t, ticker) ==
    IF t.asset_type /= "Stock" \/ t.ticker /= ticker THEN position
    ELSE IF t.action = "Buy"
    THEN [position EXCEPT !.shares = @ + t.quantity,
                          !.cost_basis = @ + t.quantity * t.price_per_unit]
    ELSE IF t.action = "Sell"
    THEN LET removed == IF position.shares > 0
                        THEN (position.cost_basis * t.quantity) \div position.shares
                        ELSE 0
         IN  [shares |-> position.shares - t.quantity,
              cost_basis |-> position.cost_basis - removed,
              realized |-> position.realized
                               + t.price_per_unit * t.quantity - removed - t.fees]
    ELSE position

RECURSIVE StockFold(_, _, _)
StockFold(stored, ticker, position) ==
    IF stored = <<>> THEN position
    ELSE StockFold(Tail(stored), ticker, StockStep(position, Head(stored), ticker))

StockPosition(stored, ticker) ==
    StockFold(stored, ticker, [shares |-> 0, cost_basis |-> 0, realized |-> 0])

Shares(stored, ticker) == StockPosition(stored, ticker).shares

\* GET /positions/stocks: shares and cost basis per ticker, tickers without
\* shares left out.
ServerStockPositions(stored) ==
    { [ticker |-> k, shares |-> Shares(stored, k),
       cost_basis |-> StockPosition(stored, k).cost_basis] :
        k \in { j \in ServerTickers(stored) : Shares(stored, j) /= 0 } }

RECURSIVE SumSet(_, _)
SumSet(S, f) ==
    IF S = {} THEN 0
    ELSE LET x == CHOOSE y \in S : TRUE IN f[x] + SumSet(S \ {x}, f)

\* The close price of a closing trade: 0 for Expired and Assigned, which
\* realize at the premium only.
ClosePrice(c) == IF c.action \in {"Expired", "Assigned"} THEN 0 ELSE c.price_per_unit

Realized_NoOpeningFees(stored, c) ==
    IF c.action \notin ClosingActions \/ c.linked_trade_id = None THEN 0
    ELSE LET opening == { o \in RangeOf(stored) : o.id = c.linked_trade_id[1] }
         IN  IF opening = {} THEN 0
             ELSE LET o == CHOOSE x \in opening : TRUE
                      perUnit == IF o.action = "STO"
                                 THEN o.price_per_unit - ClosePrice(c)
                                 ELSE ClosePrice(c) - o.price_per_unit
                  IN  perUnit * c.quantity * Multiplier(o) - c.fees

\* Realized amount of one closing trade against the opening trade it links to.
Realized(stored, c) ==
    IF c.action \notin ClosingActions \/ c.linked_trade_id = None THEN 0
    ELSE LET opening == { o \in RangeOf(stored) : o.id = c.linked_trade_id[1] }
         IN  IF opening = {} THEN 0
             ELSE LET o == CHOOSE x \in opening : TRUE
                      perUnit == IF o.action = "STO"
                                 THEN o.price_per_unit - ClosePrice(c)
                                 ELSE ClosePrice(c) - o.price_per_unit
                  IN  perUnit * c.quantity * Multiplier(o) - (o.fees + c.fees)

\* GET /dashboard/summary (no price feed: unrealized P&L is 0).
ServerSummary(stored) ==
    LET options == SumOver(stored, LAMBDA c : Realized(stored, c))
        stocks == SumSet(ServerTickers(stored),
                         [k \in ServerTickers(stored) |->
                             StockPosition(stored, k).realized])
        realized == options + stocks
    IN  [total_pnl |-> realized, realized_pnl |-> realized, unrealized_pnl |-> 0,
         total_fees |-> SumOver(stored, LAMBDA t : t.fees)]

SignedPremium(t) ==
    (IF t.action \in CreditActions THEN 1 ELSE -1)
        * t.price_per_unit * t.quantity * Multiplier(t)

\* GET /dashboard/premium/{period}; every trade of the model is dated in one period.
ServerPremium(stored) ==
    IF stored = <<>> THEN <<>>
    ELSE << [period |-> "2026-11",
             net_premium |-> SumOver(stored, SignedPremium),
             total_fees |-> SumOver(stored, LAMBDA t : t.fees),
             num_trades |-> Len(stored)] >>

QueryKeys ==
    {"trades", "tickers", "summary", "premium", "openPositions", "stockPositions"}

\* What the query function of a key returns for a ledger.
QueryFn(key, stored) ==
    CASE key = "trades" -> stored
      [] key = "tickers" -> ServerTickers(stored)
      [] key = "summary" -> ServerSummary(stored)
      [] key = "premium" -> ServerPremium(stored)
      [] key = "openPositions" -> ServerOpenPositions(stored)
      [] key = "stockPositions" -> ServerStockPositions(stored)

\* status of a stored trade: Open for an opening option or spread trade.
InitialStatus(t) ==
    IF t.asset_type \in {"Option", "Spread"} /\ t.action \in OpeningActions
    THEN Some("Open") ELSE None

\* POST /trades
ServerInsert(stored, id, t) ==
    Append(stored,
           [id |-> id, ticker |-> t.ticker, asset_type |-> t.asset_type,
            action |-> t.action, trade_date |-> t.trade_date,
            quantity |-> t.quantity,
            price_per_unit |-> t.price_per_unit, fees |-> t.fees,
            linked_trade_id |-> t.linked_trade_id, status |-> InitialStatus(t),
            notes |-> IF "notes" \in DOMAIN t THEN t.notes ELSE None])

RECURSIVE ServerInsertAll(_, _, _)
ServerInsertAll(stored, id, rows) ==
    IF rows = <<>> THEN stored
    ELSE ServerInsertAll(ServerInsert(stored, id, Head(rows)), id + 1, Tail(rows))

\* PUT /trades/{id} with {notes}: the notes of the trade are replaced.
ServerUpdateNotes(stored, id, notes) ==
    [i \in 1..Len(stored) |->
        IF stored[i].id = id THEN [stored[i] EXCEPT !.notes = Some(notes)]
        ELSE stored[i]]

\* DELETE /trades/{id}
ServerDelete(stored, id) == SelectSeq(stored, LAMBDA t : t.id /= id)

ServerClose_InPlace(stored, newId, id, request) ==
    [i \in 1..Len(stored) |->
        IF stored[i].id = id
        THEN [stored[i] EXCEPT !.status = Some("Closed"),
                               !.price_per_unit = request.close_price,
                               !.fees = @ + request.close_fees]
        ELSE stored[i]]

\* POST /trades/{id}/close: a new closing trade linked to the opening one, which
\* becomes Closed.
ServerClose(stored, newId, id, request) ==
    LET o == CHOOSE t \in RangeOf(stored) : t.id = id
        closing == [id |-> newId, ticker |-> o.ticker, asset_type |-> o.asset_type,
                    action |-> IF request.action_type = "Close"
                               THEN (IF o.action = "STO" THEN "BTC" ELSE "STC")
                               ELSE request.action_type,
                    trade_date |-> request.close_date,
                    quantity |-> o.quantity,
                    price_per_unit |-> request.close_price,
                    fees |-> request.close_fees,
                    linked_trade_id |-> Some(id), status |-> None,
                    notes |-> None]
    IN  Append([i \in 1..Len(stored) |->
                   IF stored[i].id = id
                   THEN [stored[i] EXCEPT !.status = Some("Closed")]
                   ELSE stored[i]],
               closing)

-----------------------------------------------------------------------------
(* Trades.tsx: sorting, paging, deleting and closing.                      *)

\* Sorting and paging.  The comparator of filtered.sort is not computed: the
\* rows are taken in the order of the list.
rowsPerPage == 25

totalPages == (Len(filtered) + rowsPerPage - 1) \div rowsPerPage

pageData == slice(filtered, tablePage * rowsPerPage, (tablePage + 1) * rowsPerPage)

SortKeys == {"trade_date", "ticker", "strike_price", "expiration_date", "price_per_unit"}
\* The columns whose header has an onClick.
HeaderSortKeys == {"trade_date", "strike_price", "expiration_date", "price_per_unit"}
\* The options of the Sort By select: every key in both directions.
SortOptions == [key : SortKeys, asc : BOOLEAN]

handleSort_KeepDirection(key) ==
    IF sortKey = key THEN [key |-> key, asc |-> ~sortAsc]
    ELSE [key |-> key, asc |-> sortAsc]

handleSort(key) ==
    IF sortKey = key THEN [key |-> sortKey, asc |-> ~sortAsc]
    ELSE [key |-> key, asc |-> FALSE]

\* A click on a column header.
HandleSort ==
    /\ FiltersShown
    /\ \E key \in HeaderSortKeys :
          /\ sortKey' = handleSort(key).key
          /\ sortAsc' = handleSort(key).asc
    /\ tablePage' = 0
    /\ UNCHANGED <<ledger, trades, tradesLoaded, filters, tradesFetching,
                   deleteMutation, closeVars, inFlight, tableFrame>>

\* The Sort By select: the value is split into key and direction.
SelectSort ==
    /\ FiltersShown
    /\ \E option \in SortOptions :
          /\ sortKey' = option.key
          /\ sortAsc' = option.asc
    /\ tablePage' = 0
    /\ UNCHANGED <<ledger, trades, tradesLoaded, filters, tradesFetching,
                   deleteMutation, closeVars, inFlight, tableFrame>>

\* Prev is disabled on page 0, Next on the last page.
PrevPage ==
    /\ FiltersShown
    /\ tablePage /= 0
    /\ tablePage' = tablePage - 1
    /\ UNCHANGED <<ledger, trades, tradesLoaded, filters, sortVars, tradesFetching,
                   deleteMutation, closeVars, inFlight, tableFrame>>

NextPage ==
    /\ FiltersShown
    /\ ~(tablePage >= totalPages - 1)
    /\ tablePage' = tablePage + 1
    /\ UNCHANGED <<ledger, trades, tradesLoaded, filters, sortVars, tradesFetching,
                   deleteMutation, closeVars, inFlight, tableFrame>>

\* Deletions the server carries out for the page.
MaxDeletes == 1

\* The delete button of a row of the page, confirm() accepted; the button is
\* disabled while deleteMutation is pending.  The row clicked is the last of
\* the page.
DeleteRow ==
    /\ FiltersShown
    /\ ~isPending(deleteMutation)
    /\ pageData /= <<>>
    /\ deleteMutation' = [status |-> "pending",
                          variables |-> Some(pageData[Len(pageData)].id)]
    /\ inFlight' = [inFlight EXCEPT !["delete"] = @ + 1]
    /\ UNCHANGED <<ledger, trades, tradesLoaded, filters, sortVars, tablePage,
                   tradesFetching, closeVars, tableFrame>>

\* DELETE /trades/{id} succeeds; deleteMutation.onSuccess invalidates ['trades'],
\* which the mounted page refetches.
DeleteSuccess ==
    /\ deleteMutation.status = "pending"
    /\ writes < MaxDeletes
    /\ \E t \in RangeOf(ledger) : Some(t.id) = deleteMutation.variables
    /\ ledger' = ServerDelete(ledger, deleteMutation.variables[1])
    /\ writes' = writes + 1
    /\ deleteMutation' = IdleMutation
    /\ inFlight' = [inFlight EXCEPT !["delete"] = @ - 1]
    /\ tradesFetching' = TRUE
    /\ UNCHANGED <<trades, tradesLoaded, filters, sortVars, tablePage, closeVars,
                   ledgerNextId, cache, fetching, page, mutation, notTableVars>>

\* The request fails (the trade is gone, or the server is unreachable).
DeleteError ==
    /\ deleteMutation.status = "pending"
    /\ deleteMutation' = IdleMutation
    /\ inFlight' = [inFlight EXCEPT !["delete"] = @ - 1]
    /\ UNCHANGED <<ledger, trades, tradesLoaded, filters, sortVars, tablePage,
                   tradesFetching, closeVars, tableFrame>>

\* The refetch of ['trades'] resolves.
TradesRefetched ==
    /\ tradesFetching
    /\ trades' = ServerListTrades(ledger, getTradesParams(None))
    /\ tradesFetching' = FALSE
    /\ UNCHANGED <<ledger, tradesLoaded, filters, sortVars, tablePage,
                   deleteMutation, closeVars, inFlight, tableFrame>>

\* A ledger of n trades, the trades of the pool repeated.
LongLedger(n) ==
    [i \in 1..n |-> [TradePool[((i - 1) % Len(TradePool)) + 1] EXCEPT !.id = i]]

\* Most trades in the ledger when the page is opened.
MaxTrades == 26

PagingInit ==
    /\ ledger \in { LongLedger(n) : n \in rowsPerPage..MaxTrades }
    /\ trades = <<>>
    /\ tradesLoaded = FALSE
    /\ filters = AllFilters
    /\ TradesPageMounted

PagingNext ==
    \/ TradesLoaded \/ SetTickerFilter \/ SetAssetTypeFilter \/ SetActionFilter
    \/ HandleSort \/ SelectSort \/ PrevPage \/ NextPage
    \/ DeleteRow \/ DeleteSuccess \/ DeleteError \/ TradesRefetched

\* The close dialog.  The ledger the page is opened on: two open option trades,
\* an open spread and a stock purchase.
CloseLedger ==
    LET T(id, ticker, type, action, qty, price, fees) ==
            [id |-> id, ticker |-> ticker, asset_type |-> type, action |-> action,
             trade_date |-> "2026-11-02", quantity |-> qty, price_per_unit |-> price,
             fees |-> fees, linked_trade_id |-> None,
             status |-> IF type /= "Stock" THEN Some("Open") ELSE None,
             notes |-> None]
    IN  << T(1, "AB", "Option", "STO", 1, 200, 65),
           T(2, "CD", "Option", "BTO", 1, 100, 10),
           T(3, "EF", "Spread", "STO", 1, 300, 65),
           T(4, "GH", "Stock", "Buy", 10, 5000, 0) >>

\* Closes the server carries out for the page.
MaxCloses == 1

\* What the user can enter in the dialog; None is a text parseFloat rejects.
ClosePriceInputs == { None, Some(50) }
CloseFeesInputs == { None, Some(65) }
CloseDateInputs == { "2026-11-02", "2026-11-03" }

CloseInit ==
    /\ ledger = CloseLedger
    /\ ledgerNextId = Len(CloseLedger) + 1
    /\ trades = <<>>
    /\ tradesLoaded = FALSE
    /\ filters = AllFilters
    /\ TradesPageMounted

closeFrame == <<filters, sortVars, tablePage, deleteMutation,
                cache, fetching, page, mutation, notTableVars>>

\* The row's action cell: the Close button, or the status text.
closeOffered(t) ==
    t.status = Some("Open") /\ t.asset_type = "Option" /\ t.action \in {"STO", "BTO"}

\* The table is rendered, and not covered by the dialog.
TableShown == tradesLoaded /\ Len(trades) > 0 /\ closeModalTrade = None

\* (An interleaving reduction: the request holds a copy of the form, so the
\* dialog is edited while no close request is pending.)
DialogShown == closeModalTrade /= None /\ closeMutation.status /= "pending"

\* The Close button of a row: setCloseModalTrade(trade).
OpenCloseModal ==
    /\ TableShown
    /\ \E t \in RangeOf(pageData) :
          /\ closeOffered(t)
          /\ closeModalTrade' = Some(t)
    /\ UNCHANGED <<ledger, ledgerNextId, writes, trades, tradesLoaded, tradesFetching,
                   closeForm, closeMutation, inFlight, closeFrame>>

\* The Close / Expired / Assigned buttons.
SetActionType ==
    /\ DialogShown
    /\ \E type \in {"Close", "Expired", "Assigned"} :
          closeForm' = [closeForm EXCEPT !.action_type = type]
    /\ UNCHANGED <<ledger, ledgerNextId, writes, trades, tradesLoaded, tradesFetching,
                   closeModalTrade, closeMutation, inFlight, closeFrame>>

\* The date, price and fees inputs are rendered for the action type Close only.
TypeCloseDate ==
    /\ DialogShown
    /\ closeForm.action_type = "Close"
    /\ \E v \in CloseDateInputs : closeForm' = [closeForm EXCEPT !.close_date = v]
    /\ UNCHANGED <<ledger, ledgerNextId, writes, trades, tradesLoaded, tradesFetching,
                   closeModalTrade, closeMutation, inFlight, closeFrame>>

TypeClosePrice ==
    /\ DialogShown
    /\ closeForm.action_type = "Close"
    /\ \E v \in ClosePriceInputs :
          closeForm' = [closeForm EXCEPT !.close_price = NumberOr(v, 0)]
    /\ UNCHANGED <<ledger, ledgerNextId, writes, trades, tradesLoaded, tradesFetching,
                   closeModalTrade, closeMutation, inFlight, closeFrame>>

TypeCloseFees ==
    /\ DialogShown
    /\ closeForm.action_type = "Close"
    /\ \E v \in CloseFeesInputs :
          closeForm' = [closeForm EXCEPT !.close_fees = NumberOr(v, 0)]
    /\ UNCHANGED <<ledger, ledgerNextId, writes, trades, tradesLoaded, tradesFetching,
                   closeModalTrade, closeMutation, inFlight, closeFrame>>

\* Cancel: disabled while the close is pending; closeForm is kept.
CancelClose ==
    /\ closeModalTrade /= None
    /\ ~isPending(closeMutation)
    /\ closeModalTrade' = None
    /\ UNCHANGED <<ledger, ledgerNextId, writes, trades, tradesLoaded, tradesFetching,
                   closeForm, closeMutation, inFlight, closeFrame>>

\* Confirm: closeMutation.mutate({ id: closeModalTrade.id, request: closeForm }),
\* disabled while the close is pending.
ConfirmClose ==
    /\ closeModalTrade /= None
    /\ ~isPending(closeMutation)
    /\ closeMutation' = [status |-> "pending",
                         variables |-> Some([id |-> closeModalTrade[1].id,
                                             request |-> closeForm])]
    /\ inFlight' = [inFlight EXCEPT !["close"] = @ + 1]
    /\ UNCHANGED <<ledger, ledgerNextId, writes, trades, tradesLoaded, tradesFetching,
                   closeModalTrade, closeForm, closeFrame>>

\* POST /trades/{id}/close succeeds for an open trade; closeMutation.onSuccess
\* invalidates ['trades'], which the mounted page refetches, and closes the dialog.
CloseSuccess ==
    /\ closeMutation.status = "pending"
    /\ writes < MaxCloses
    /\ \E t \in RangeOf(ledger) :
          t.id = closeMutation.variables[1].id /\ t.status = Some("Open")
    /\ ledger' = ServerClose(ledger, ledgerNextId, closeMutation.variables[1].id,
                             closeMutation.variables[1].request)
    /\ ledgerNextId' = ledgerNextId + 1
    /\ writes' = writes + 1
    /\ closeMutation' = IdleMutation
    /\ inFlight' = [inFlight EXCEPT !["close"] = @ - 1]
    /\ closeModalTrade' = None
    /\ tradesFetching' = TRUE
    /\ UNCHANGED <<trades, tradesLoaded, closeForm, closeFrame>>

\* The request is rejected or fails: the dialog stays open.
CloseError ==
    /\ closeMutation.status = "pending"
    /\ closeMutation' = IdleMutation
    /\ inFlight' = [inFlight EXCEPT !["close"] = @ - 1]
    /\ UNCHANGED <<ledger, ledgerNextId, writes, trades, tradesLoaded, tradesFetching,
                   closeModalTrade, closeForm, closeFrame>>

CloseNext ==
    \/ TradesLoaded \/ OpenCloseModal \/ SetActionType \/ TypeCloseDate
    \/ TypeClosePrice \/ TypeCloseFees \/ CancelClose \/ ConfirmClose
    \/ CloseSuccess \/ CloseError \/ TradesRefetched
    \/ DeleteRow \/ DeleteSuccess \/ DeleteError

-----------------------------------------------------------------------------
(* App.tsx and the pages: the query cache and the mutations.               *)

Pages == {"Dashboard", "Trades", "AddTrade", "ImportCSV"}

\* Successful writes, and expiries of staleTime, in one behaviour.
MaxWrites == 2
MaxStaleTimes == 1

\* A ledger found at start-up, the trades of /sample-data, the rows of the
\* imported CSV file, the trades entered on the Add Trade page, and the close
\* requests of the close dialog.
SeedLedger ==
    << [id |-> 1, ticker |-> "AB", asset_type |-> "Option", action |-> "STO",
        trade_date |-> "2026-11-02", quantity |-> 1, price_per_unit |-> 200,
        fees |-> 65,
        linked_trade_id |-> None, status |-> Some("Open"), notes |-> None],
       [id |-> 2, ticker |-> "CD", asset_type |-> "Stock", action |-> "Buy",
        trade_date |-> "2026-11-02", quantity |-> 10, price_per_unit |-> 5000,
        fees |-> 0,
        linked_trade_id |-> None, status |-> None, notes |-> None] >>
InitialLedgers == {<<>>, SeedLedger}

SampleTrades ==
    << [ticker |-> "EF", asset_type |-> "Option", action |-> "STO",
        trade_date |-> "2026-11-02", quantity |-> 2,
        price_per_unit |-> 150, fees |-> 130, linked_trade_id |-> None] >>
\* The files whose required columns are all detected.
ImportableFiles ==
    { f \in FileIds :
        \A i \in 1..Len(RequiredColumns) :
            AutoDetect(CsvFiles[f].columns)[RequiredColumns[i]] /= <<>> }
CreatePayloads ==
    { [ticker |-> "AB", asset_type |-> "Stock", action |-> "Buy",
       trade_date |-> "2026-11-02", quantity |-> 5,
       price_per_unit |-> 4000, fees |-> 0, linked_trade_id |-> None],
      [ticker |-> "IJ", asset_type |-> "Option", action |-> "STO",
       trade_date |-> "2026-11-02", quantity |-> 1,
       price_per_unit |-> 100, fees |-> 65, linked_trade_id |-> None] }
\* A closing trade entered on the Add Trade page for the position chosen in
\* the link select (getActions: BTC and STC are the closing option actions).
ClosingPayload(position) ==
    [ticker |-> position.ticker, asset_type |-> "Option",
     action |-> IF position.action = "STO" THEN "BTC" ELSE "STC",
     trade_date |-> "2026-11-02", quantity |-> 1, price_per_unit |-> 50,
     fees |-> 65, linked_trade_id |-> Some(position.id)]
CloseRequests ==
    { [action_type |-> "Close", close_date |-> "2026-11-02", close_price |-> 50,
       close_fees |-> 65],
      [action_type |-> "Expired", close_date |-> "2026-11-02", close_price |-> 0,
       close_fees |-> 0] }

\* A query of the cache: its data, whether it was invalidated, and whether its
\* data is older than staleTime (one minute).
NoQuery == [data |-> None, invalidated |-> FALSE, old |-> FALSE]
IsStale(q) == q.invalidated \/ q.old

\* `!!trades && trades.length > 0`, on the cached trades.
HasTrades(c) == c["trades"].data /= None /\ Len(c["trades"].data[1]) > 0

\* The enabled useQuery observers of a page.
Observed(p, c) ==
    CASE p = "Dashboard" ->
            {"trades", "openPositions", "stockPositions"}
                \cup (IF HasTrades(c) THEN {"summary", "premium"} ELSE {})
      [] p = "Trades" -> {"trades", "tickers"}
      [] p = "AddTrade" -> {"openPositions"}
      [] p = "ImportCSV" -> {}

\* An observer that mounts or becomes enabled fetches unless fresh data is cached.
NeedsFetch(c, key) == c[key].data = None \/ IsStale(c[key])

CacheInit ==
    /\ ledger \in InitialLedgers
    /\ ledgerNextId = Len(ledger) + 1
    /\ cache = [k \in QueryKeys |-> NoQuery]
    /\ page = "Dashboard"
    /\ fetching = Observed("Dashboard", [k \in QueryKeys |-> NoQuery])
    /\ mutation = None
    /\ writes = 0

notCacheVars == <<premVars, formVars, detVars, importVars, tableVars, viewVars>>

\* The user acts on a settled page (an interleaving reduction): no click while a
\* fetch or a mutation is in flight.
Settled == mutation = None /\ fetching = {}

\* A NavLink of the layout: the page's observers mount.
Navigate ==
    /\ Settled
    /\ \E p \in Pages \ {page} :
          /\ page' = p
          /\ fetching' = fetching \cup { k \in Observed(p, cache) : NeedsFetch(cache, k) }
    /\ UNCHANGED <<ledger, ledgerNextId, cache, mutation, writes, notCacheVars>>

\* A query function resolves with what the server derives from the ledger; on
\* the Dashboard the trades' arrival may enable the summary and premium queries.
FetchDone ==
    \E key \in fetching :
        LET c == [cache EXCEPT ![key] = [data |-> Some(QueryFn(key, ledger)),
                                         invalidated |-> FALSE, old |-> FALSE]]
            enabledNow == Observed(page, c) \ Observed(page, cache)
        IN  /\ cache' = c
            /\ fetching' = (fetching \ {key})
                               \cup { k \in enabledNow : NeedsFetch(c, k) }
            /\ UNCHANGED <<ledger, ledgerNextId, page, mutation, writes, notCacheVars>>

\* staleTime passes for the data now cached (nothing refetches on that alone;
\* refetchOnWindowFocus is off).
StaleTimePasses ==
    /\ Settled
    /\ Cardinality({ k \in QueryKeys : cache[k].old }) < MaxStaleTimes
    /\ \E k \in QueryKeys : cache[k].data /= None /\ ~cache[k].old
    /\ cache' = [k \in QueryKeys |->
                    IF cache[k].data /= None THEN [cache[k] EXCEPT !.old = TRUE]
                    ELSE cache[k]]
    /\ UNCHANGED <<ledger, ledgerNextId, fetching, page, mutation, writes, notCacheVars>>

\* A mutation request: the server commits the write, or the request fails.
Request(kind, args, stored, newNextId, data) ==
    /\ Settled
    /\ \/ /\ writes < MaxWrites
          /\ ledger' = stored
          /\ ledgerNextId' = newNextId
          /\ writes' = writes + 1
          /\ mutation' = Some([kind |-> kind, ok |-> TRUE, args |-> args,
                               data |-> data])
       \/ /\ mutation' = Some([kind |-> kind, ok |-> FALSE, args |-> args,
                               data |-> None])
          /\ UNCHANGED <<ledger, ledgerNextId, writes>>
    /\ UNCHANGED <<cache, fetching, page, notCacheVars>>

\* Dashboard: the Load Sample Data button of the empty state.
LoadSampleData ==
    /\ page = "Dashboard"
    /\ ~HasTrades(cache)
    /\ Request("sample", None,
               ServerInsertAll(ledger, ledgerNextId, SampleTrades),
               ledgerNextId + Len(SampleTrades), None)

\* The positions the link select of the Add Trade page offers (the cached
\* open positions) that the ledger still holds.
LinkablePositions ==
    IF cache["openPositions"].data = None THEN {}
    ELSE { p \in cache["openPositions"].data[1] :
             \E stored \in RangeOf(ledger) : stored.id = p.id }

\* Add Trade: createMutation.mutate(payload)
CreateTrade ==
    /\ page = "AddTrade"
    /\ \E payload \in CreatePayloads
                        \cup { ClosingPayload(p) : p \in LinkablePositions } :
          Request("create", payload, ServerInsert(ledger, ledgerNextId, payload),
                  ledgerNextId + 1, [id |-> ledgerNextId])

\* Trades: the delete button of a row of the table (rows are the cached trades).
DeleteTrade ==
    /\ page = "Trades"
    /\ HasTrades(cache)
    /\ \E t \in RangeOf(cache["trades"].data[1]) :
          /\ \E stored \in RangeOf(ledger) : stored.id = t.id
          /\ Request("delete", [id |-> t.id], ServerDelete(ledger, t.id),
                     ledgerNextId, None)

\* Trades: Confirm in the close dialog of an open option row.
CloseTrade ==
    /\ page = "Trades"
    /\ HasTrades(cache)
    /\ \E t \in RangeOf(cache["trades"].data[1]), request \in CloseRequests :
          /\ t.status = Some("Open") /\ t.asset_type = "Option"
          /\ t.action \in {"STO", "BTO"}
          /\ \E stored \in RangeOf(ledger) : stored.id = t.id /\ stored.status = Some("Open")
          /\ Request("close", [id |-> t.id, request |-> request],
                     ServerClose(ledger, ledgerNextId, t.id, request),
                     ledgerNextId + 1, [closing_trade_id |-> ledgerNextId])

\* The text saved in the notes editor.
EditNotesValues == {"rolled"}

\* Trades: Save in the notes editor of a row: updateMutation.mutate({id, notes})
UpdateNotes ==
    /\ page = "Trades"
    /\ HasTrades(cache)
    /\ \E t \in RangeOf(cache["trades"].data[1]), notes \in EditNotesValues :
          /\ \E stored \in RangeOf(ledger) : stored.id = t.id
          /\ Request("update", [id |-> t.id, notes |-> notes],
                     ServerUpdateNotes(ledger, t.id, notes), ledgerNextId, None)

\* Import CSV: importMutation.mutate()
ImportCSV ==
    /\ page = "ImportCSV"
    /\ \E f \in ImportableFiles :
          LET outcome == ImportOutcome(f)
          IN  Request("import", [file |-> f],
                      ServerInsertAll(ledger, ledgerNextId, outcome.created),
                      ledgerNextId + Len(outcome.created), outcome.result)

\* queryClient.invalidateQueries for each key: cached queries are marked
\* invalidated and those with an enabled observer refetch.
InvalidateQueries(keys) ==
    /\ cache' = [k \in QueryKeys |->
                    IF k \in keys /\ cache[k].data /= None
                    THEN [cache[k] EXCEPT !.invalidated = TRUE] ELSE cache[k]]
    /\ fetching' = fetching \cup (keys \cap Observed(page, cache))

Succeeded(kind) == mutation /= None /\ mutation[1].kind = kind /\ mutation[1].ok

\* sampleDataMutation.onSuccess
SampleDataOnSuccess ==
    /\ Succeeded("sample")
    /\ InvalidateQueries({"trades", "summary", "openPositions", "stockPositions"})
    /\ mutation' = None
    /\ UNCHANGED <<ledger, ledgerNextId, page, writes, notCacheVars>>

\* createMutation.onSuccess
CreateOnSuccess ==
    /\ Succeeded("create")
    /\ InvalidateQueries({"trades", "openPositions", "summary"})
    /\ mutation' = None
    /\ UNCHANGED <<ledger, ledgerNextId, page, writes, notCacheVars>>

\* deleteMutation.onSuccess
DeleteOnSuccess ==
    /\ Succeeded("delete")
    /\ InvalidateQueries({"trades"})
    /\ mutation' = None
    /\ UNCHANGED <<ledger, ledgerNextId, page, writes, notCacheVars>>

UpdateOnSuccess_NoInvalidate ==
    /\ Succeeded("update")
    /\ mutation' = None
    /\ UNCHANGED <<ledger, ledgerNextId, cache, fetching, page, writes, notCacheVars>>

\* updateMutation.onSuccess
UpdateOnSuccess ==
    /\ Succeeded("update")
    /\ InvalidateQueries({"trades"})
    /\ mutation' = None
    /\ UNCHANGED <<ledger, ledgerNextId, page, writes, notCacheVars>>

\* closeMutation.onSuccess
CloseOnSuccess ==
    /\ Succeeded("close")
    /\ InvalidateQueries({"trades", "openPositions", "summary"})
    /\ mutation' = None
    /\ UNCHANGED <<ledger, ledgerNextId, page, writes, notCacheVars>>

\* importMutation.onSuccess
ImportOnSuccess ==
    /\ Succeeded("import")
    /\ InvalidateQueries({"trades", "summary", "tickers"})
    /\ mutation' = None
    /\ UNCHANGED <<ledger, ledgerNextId, page, writes, notCacheVars>>

\* A failed mutation: no onError handler touches the cache.
MutationError ==
    /\ mutation /= None /\ ~mutation[1].ok
    /\ mutation' = None
    /\ UNCHANGED <<ledger, ledgerNextId, cache, fetching, page, writes, notCacheVars>>

\* The queries whose data the current page renders.
Shown(p, c) ==
    CASE p = "Dashboard" ->
            IF HasTrades(c)
            THEN {"trades", "summary", "premium", "openPositions", "stockPositions"}
            ELSE {"trades"}
      [] p = "Trades" -> IF HasTrades(c) THEN {"trades", "tickers"} ELSE {"trades"}
      [] p = "AddTrade" -> {"openPositions"}
      [] p = "ImportCSV" -> {}

CacheNext ==
    \/ Navigate \/ FetchDone \/ StaleTimePasses
    \/ LoadSampleData \/ CreateTrade \/ DeleteTrade \/ CloseTrade \/ ImportCSV
    \/ UpdateNotes
    \/ SampleDataOnSuccess \/ CreateOnSuccess \/ DeleteOnSuccess \/ CloseOnSuccess
    \/ ImportOnSuccess \/ UpdateOnSuccess \/ MutationError

-----------------------------------------------------------------------------
(* Dashboard.tsx: the premium chart.                                       *)

\* The number of periods the chart and the premium table show.
ChartPeriods == 12

\* premiumData?.slice(0, 12).reverse().map(item => ({period, net}))
chartData_ReverseFirst(data) ==
    LET items == slice(reverse(data), 0, ChartPeriods)
    IN  [i \in 1..Len(items) |->
            [period |-> items[i].period,
             net |-> items[i].net_premium - items[i].total_fees]]

chartDataOf(data) ==
    LET items == reverse(slice(data, 0, ChartPeriods))
    IN  [i \in 1..Len(items) |->
            [period |-> items[i].period,
             net |-> items[i].net_premium - items[i].total_fees]]

\* Premium responses: n periods, newest first; a period key is the ordinal of
\* the period, and the amounts vary with the period and with a seed.
MaxPeriods == 14
PremiumSeeds == {1, 2}
PremiumResponse(n, seed) ==
    [i \in 1..n |->
        LET key == n + 1 - i
        IN  [period |-> key,
             net_premium |-> ((key * 37 * seed) % 11) * 100 - 500,
             total_fees |-> ((key + seed) % 3) * 65,
             num_trades |-> 1 + (key % 2)]]
PremiumResponses == { PremiumResponse(n, seed) : n \in 0..MaxPeriods, seed \in PremiumSeeds }
PeriodKinds == {"week", "month", "year"}

ChartIdle == premiumData = <<>> /\ period = "month" /\ chartData = None

ChartInit ==
    /\ premiumData \in PremiumResponses
    /\ period = "month"
    /\ chartData = None

notChartVars == <<premVars, formVars, detVars, importVars, tableVars, cacheVars,
                  resolverVars>>

\* The Dashboard renders with the premium response of the current period.
RenderChart ==
    /\ chartData = None
    /\ chartData' = Some(chartDataOf(premiumData))
    /\ UNCHANGED <<premiumData, period, notChartVars>>

\* The Week/Month/Year buttons: another query key, another response.
SetPeriod ==
    /\ chartData /= None
    /\ \E p \in PeriodKinds \ {period} : period' = p
    /\ premiumData' \in PremiumResponses
    /\ chartData' = None
    /\ UNCHANGED notChartVars

ChartNext == RenderChart \/ SetPeriod

ResolverIdle == resolved = None

-----------------------------------------------------------------------------
(* The views of one ledger: positions, summary, the Dashboard's stock rows *)
(* and the Trades page's linked-trade highlight.                           *)

\* Trades a ledger may hold: an STO closed in two halves or over-closed, a BTO
\* and its close, a stock bought and sold in two lots, and an STO of one
\* contract closed at once, and a second stock bought and sold in full.
ResolverPool ==
    LET T(id, ticker, type, action, qty, price, fees, link) ==
            [id |-> id, ticker |-> ticker, asset_type |-> type, action |-> action,
             trade_date |-> "2026-11-02", quantity |-> qty, price_per_unit |-> price,
             fees |-> fees, linked_trade_id |-> link,
             status |-> IF action \in OpeningActions THEN Some("Open") ELSE None]
    IN  << T(1, "AB", "Option", "STO", 2, 200, 65, None),
           T(2, "AB", "Option", "BTC", 1, 50, 65, Some(1)),
           T(3, "AB", "Option", "BTC", 1, 50, 65, Some(1)),
           T(4, "CD", "Option", "BTO", 1, 100, 10, None),
           T(5, "CD", "Option", "STC", 1, 150, 10, Some(4)),
           T(6, "EF", "Stock", "Buy", 10, 5000, 0, None),
           T(7, "EF", "Stock", "Sell", 4, 6000, 100, None),
           T(8, "EF", "Stock", "Sell", 6, 4000, 0, None),
           T(9, "GH", "Option", "STO", 1, 200, 65, None),
           T(10, "GH", "Option", "BTC", 1, 50, 65, Some(9)),
           T(11, "AB", "Option", "Expired", 2, 0, 0, Some(1)),
           T(12, "IJ", "Stock", "Buy", 3, 1000, 0, None),
           T(13, "IJ", "Stock", "Sell", 3, 1200, 0, None) >>

ResolverLedgers ==
    { SelectSeq(ResolverPool, LAMBDA t : t.id \in ids) :
        ids \in SUBSET (DOMAIN ResolverPool) }

\* Dashboard: pos.shares > 0 ? pos.cost_basis / pos.shares : 0
avgCost_Total(pos) == IF pos.shares > 0 THEN pos.cost_basis ELSE 0

avgCost(pos) == IF pos.shares > 0 THEN pos.cost_basis \div pos.shares ELSE 0

\* The rows of the Dashboard's Stock Positions panel.
StockRows(positions) ==
    { [ticker |-> pos.ticker, shares |-> pos.shares, avgCost |-> avgCost(pos)] :
        pos \in positions }

\* Trades.tsx getLinkedIds: the selected trade, the trade it links to, the
\* trades linking to the same trade, and the trades linking to the selected one.
getLinkedIds_OnlyDirect(id, list) ==
    IF id = None THEN {}
    ELSE LET found == SelectSeq(list, LAMBDA t : t.id = id[1])
             target == IF found /= <<>> /\ found[1].linked_trade_id /= None
                       THEN {found[1].linked_trade_id[1]} ELSE {}
         IN  {id[1]} \cup target

getLinkedIds_NoLinkingHere(id, list) ==
    IF id = None THEN {}
    ELSE LET found == SelectSeq(list, LAMBDA t : t.id = id[1])
             viaTrade ==
                 IF found /= <<>> /\ found[1].linked_trade_id /= None
                 THEN {found[1].linked_trade_id[1]}
                          \cup { t.id : t \in { u \in RangeOf(list) :
                                   u.linked_trade_id = found[1].linked_trade_id } }
                 ELSE {}
         IN  {id[1]} \cup viaTrade

getLinkedIds(id, list) ==
    IF id = None THEN {}
    ELSE LET found == SelectSeq(list, LAMBDA t : t.id = id[1])
             viaTrade ==
                 IF found /= <<>> /\ found[1].linked_trade_id /= None
                 THEN {found[1].linked_trade_id[1]}
                          \cup { t.id : t \in { u \in RangeOf(list) :
                                   u.linked_trade_id = found[1].linked_trade_id } }
                 ELSE {}
             linkingHere == { t.id : t \in { u \in RangeOf(list) :
                                u.linked_trade_id = id } }
         IN  {id[1]} \cup viaTrade \cup linkingHere

Views(stored, id) ==
    [selectedId |-> id,
     openPositions |-> ServerOpenPositions(stored),
     stockPositions |-> ServerStockPositions(stored),
     stockRows |-> StockRows(ServerStockPositions(stored)),
     summary |-> ServerSummary(stored),
     highlightedIds |-> getLinkedIds(id, stored)]

ResolverInit ==
    /\ ledger \in ResolverLedgers
    /\ resolved = None

notResolverVars == <<premVars, formVars, detVars, importVars, tableVars, chartVars,
                     ledgerNextId, cache, fetching, page, mutation, writes>>

\* The queries of the pages resolve against the ledger; no row is selected.
Resolve ==
    /\ resolved = None
    /\ resolved' = Some(Views(ledger, None))
    /\ UNCHANGED <<ledger, notResolverVars>>

\* A click on the link icon of a row selects it, or unselects the selected row.
SelectRow ==
    /\ resolved /= None
    /\ \E t \in RangeOf(ledger) :
          LET id == IF resolved[1].selectedId = Some(t.id) THEN None ELSE Some(t.id)
          IN  resolved' = Some([resolved[1] EXCEPT
                                   !.selectedId = id,
                                   !.highlightedIds = getLinkedIds(id, ledger)])
    /\ UNCHANGED <<ledger, notResolverVars>>

ResolverNext == Resolve \/ SelectRow

-----------------------------------------------------------------------------
(* Specifications.                                                         *)

ViewsIdle == ChartIdle /\ ResolverIdle

InitPremium == PremInit /\ FormInit /\ DetIdle /\ ImportInit /\ TableIdle /\ CacheIdle /\ ViewsIdle
SpecPremium == InitPremium /\ [][PremNext]_vars

InitForm == PremIdle /\ FormInit /\ DetIdle /\ ImportInit /\ TableIdle /\ CacheIdle /\ ViewsIdle
SpecForm == InitForm /\ [][FormNext]_vars

InitDetect == PremIdle /\ FormInit /\ DetInit /\ ImportInit /\ TableIdle /\ CacheIdle /\ ViewsIdle
SpecDetect == InitDetect /\ [][DetNext]_vars

InitImport == PremIdle /\ FormInit /\ DetIdle /\ ImportInit /\ TableIdle /\ CacheIdle /\ ViewsIdle
SpecImport == InitImport /\ [][ImportNext]_vars

InitTable == PremIdle /\ FormInit /\ DetIdle /\ ImportInit /\ TableInit /\ CacheIdle0 /\ ViewsIdle
SpecTable == InitTable /\ [][TableNext]_vars

InitPaging == PremIdle /\ FormInit /\ DetIdle /\ ImportInit /\ PagingInit /\ CacheIdle0 /\ ViewsIdle
SpecPaging == InitPaging /\ [][PagingNext]_vars

InitClose ==
    /\ PremIdle /\ FormInit /\ DetIdle /\ ImportInit /\ CloseInit
    /\ cache = None /\ fetching = {} /\ page = "Dashboard" /\ mutation = None
    /\ writes = 0 /\ ViewsIdle
SpecClose == InitClose /\ [][CloseNext]_vars

InitCache == PremIdle /\ FormInit /\ DetIdle /\ ImportInit /\ TableIdle /\ CacheInit /\ ViewsIdle
SpecCache == InitCache /\ [][CacheNext]_vars

InitChart ==
    /\ PremIdle /\ FormInit /\ DetIdle /\ ImportInit /\ TableIdle /\ CacheIdle
    /\ ChartInit /\ ResolverIdle
SpecChart == InitChart /\ [][ChartNext]_vars

InitResolver ==
    /\ PremIdle /\ FormInit /\ DetIdle /\ ImportInit /\ TableIdle /\ CacheIdle0
    /\ ChartIdle /\ ResolverInit
SpecResolver == InitResolver /\ [][ResolverNext]_vars

-----------------------------------------------------------------------------
(* Claims about calculatePremiumCost (SpecPremium).                        *)

C1_Multiplier(t) == IF t.asset_type \in {"Option", "Spread"} THEN 100 ELSE 1
C1_Magnitude(t) == t.price_per_unit * t.quantity * C1_Multiplier(t)

\* C1: the signed premium of a trade is +price_per_unit * quantity * multiplier
\* for the actions STO, STC, Sell, Expired, Assigned and the negative of that for
\* BTO, BTC, Buy, the multiplier being 100 for Option and Spread and 1 for Stock.
C1_SignedPremium ==
    premCost /= None =>
        /\ premTrade.action \in {"STO", "STC", "Sell", "Expired", "Assigned"}
              => premCost[1] = C1_Magnitude(premTrade)
        /\ premTrade.action \in {"BTO", "BTC", "Buy"}
              => premCost[1] = 0 - C1_Magnitude(premTrade)

C1_Witness ==
    /\ premCost /= None
    /\ premTrade.asset_type = "Spread"
    /\ premTrade.action = "BTC"
    /\ premTrade.price_per_unit = 3 /\ premTrade.quantity = 2
    /\ premCost[1] = -600

-----------------------------------------------------------------------------
(* Claims about the Add Trade form (SpecForm).                             *)

C5_ExpirationMatches(f) ==
    f.expiration_date /= None <=> f.asset_type \in {"Option", "Spread"}

\* C5: in the form, expiration_date is non-null exactly when asset_type is Option
\* or Spread, and so every create request sent has an expiration date for
\* Option/Spread and none for Stock.
\* The formula states the claim's conclusion about the requests sent, which the
\* form invariant would imply.
C5_ExpirationIffOption ==
    createReq /= None => C5_ExpirationMatches(createReq[1])

\* C6: in the form, option_type is Call or Put when asset_type is Option or
\* Spread, and null when asset_type is Stock.
C6_OptionTypeMatches ==
    IF form.asset_type = "Stock"
    THEN form.option_type = None
    ELSE form.option_type \in {Some("Call"), Some("Put")}

C6_Witness ==
    /\ form.asset_type = "Stock" /\ form.option_type = None
    /\ form.ticker = <<"A", "B">> /\ form.action = "Sell"

\* C7: in the form, strike_price_2 is non-null only when asset_type is Spread,
\* and strike_price is null whenever asset_type is Stock.
C7_StrikesMatch ==
    /\ form.strike_price_2 /= None => form.asset_type = "Spread"
    /\ form.asset_type = "Stock" => form.strike_price = None

C7_Witness ==
    /\ form.asset_type = "Stock"
    /\ form.strike_price = None /\ form.strike_price_2 = None
    /\ successMessage /= None

C8_ActionList(assetType) ==
    IF assetType = "Stock" THEN {"Buy", "Sell"} ELSE {"STO", "BTO", "BTC", "STC"}

\* C8: the form's action is always in the action list of the current asset type:
\* Buy or Sell for Stock; STO, BTO, BTC or STC for Option and Spread.
C8_ActionInList == form.action \in C8_ActionList(form.asset_type)

C8_Witness ==
    /\ form.asset_type = "Stock" /\ form.action = "Sell"
    /\ successMessage /= None /\ createPending

\* C9: a create request carries a linked_trade_id only if the trade is a closing
\* trade (asset_type Option with action BTC or STC).
C9_LinkOnlyOnClosing ==
    createReq /= None =>
        (createReq[1].linked_trade_id /= None =>
            /\ createReq[1].asset_type = "Option"
            /\ createReq[1].action \in {"BTC", "STC"})

-----------------------------------------------------------------------------
(* Claims about CSV column auto-detection (SpecDetect).                    *)

C3_Occurs(kw, header) ==
    \E start \in 0..(Len(header) - Len(kw)) :
        \A j \in 1..Len(kw) : LowerChar(header[start + j]) = LowerChar(kw[j])

C3_Matches(header, field) ==
    \E k \in 1..Len(Keywords[field]) : C3_Occurs(Keywords[field][k], header)

C3_Expected(cols, field) ==
    IF \E i \in 1..Len(cols) : C3_Matches(cols[i], field)
    THEN cols[CHOOSE i \in 1..Len(cols) :
                 /\ C3_Matches(cols[i], field)
                 /\ \A j \in 1..(i - 1) : ~C3_Matches(cols[j], field)]
    ELSE <<>>

\* C3: for each target field the detected column is the first header, in header
\* order, that contains one of the field's keywords as a substring regardless of
\* letter case; a field with no such header is mapped to the empty string.
C3_FirstCaseInsensitiveMatch ==
    detMapping /= None =>
        \A field \in MappingFields :
            detMapping[1][field] = C3_Expected(detCols, field)

\* Two headers both hold a trade-date keyword in capitals ("Exp Date" holds "date");
\* the first one wins, and a field without a matching header stays empty.
C3_Witness ==
    /\ detCols = <<<<"E","x","p"," ","D","a","t","e">>, <<"D","a","t","e">>>>
    /\ detMapping /= None
    /\ detMapping[1].trade_date_col = <<"E","x","p"," ","D","a","t","e">>
    /\ detMapping[1].ticker_col = <<>>

-----------------------------------------------------------------------------
(* Claims about the Import CSV page (SpecImport).                          *)

C4_Required == {"ticker_col", "action_col", "trade_date_col", "quantity_col", "price_col"}

C4_Unmapped == \E k \in C4_Required : mapping[k] = <<>>

\* C4: every import request on the wire carries non-empty mappings for ticker,
\* action, trade date, quantity and price; and a click on Import while one of
\* them is unmapped issues no request and leaves file, mapping and result as
\* they were.
C4_RequestOnlyWhenMapped ==
    /\ [](importReq /= None =>
            \A k \in C4_Required : importReq[1].mapping[k] /= <<>>)
    /\ [][(HandleImport /\ C4_Unmapped) =>
            /\ importReq' = None
            /\ importPending' = importPending
            /\ UNCHANGED <<file, mapping, result>>]_vars

\* Import was clicked with a required column unmapped, after an earlier import
\* had produced a result.
C4_Witness ==
    /\ importAlert /= None
    /\ C4_Unmapped
    /\ importReq = None /\ ~importPending
    /\ file /= None /\ result /= None

-----------------------------------------------------------------------------
(* Claims about the Trade History filters (SpecTable).                     *)

C10_Matches(t) ==
    /\ filters.ticker = "All" \/ t.ticker = filters.ticker
    /\ filters.asset_type = "All" \/ t.asset_type = filters.asset_type
    /\ filters.action = "All" \/ t.action = filters.action

\* C10: the unfiltered API call returns the whole ledger, and the table shows
\* exactly the loaded trades equal to every filter that is not 'All', each once
\* and in the loaded order.
C10_ExactlyMatching ==
    tradesLoaded =>
        /\ trades = ledger
        /\ filtered = SelectSeq(trades, C10_Matches)

C10_Witness ==
    /\ tradesLoaded /\ Len(trades) = 6
    /\ filters = [ticker |-> "AB", asset_type |-> "Option", action |-> "All"]
    /\ Len(filtered) = 2

-----------------------------------------------------------------------------
(* Claims about the views after a write (SpecCache).                       *)

C2_DerivedKeys == {"summary", "premium", "openPositions", "stockPositions", "tickers"}

\* C2: once a write has succeeded and no mutation or fetch is in flight, every
\* derived result the current page shows (summary, premium, open positions,
\* stock positions, ticker list) equals what the ledger, with that write, yields.
C2_NoStaleView ==
    (writes > 0 /\ mutation = None /\ fetching = {}) =>
        \A k \in Shown(page, cache) \cap C2_DerivedKeys :
            cache[k].data = Some(QueryFn(k, ledger))

-----------------------------------------------------------------------------
(* Claims about the premium chart (SpecChart).                             *)

C11_Shown == IF Len(premiumData) < 12 THEN Len(premiumData) ELSE 12

\* C11: for a response ordered newest-first the chart holds min(n, 12) bars;
\* they are the newest periods, in increasing (chronological) order, every
\* period left out is older than every bar, and bar j is worth the net premium
\* minus the fees of its period.
C11_ChartNewestTwelve ==
    chartData /= None =>
        LET bars == chartData[1]
        IN  /\ Len(bars) = C11_Shown
            /\ \A j \in 1..Len(bars) :
                  LET item == premiumData[C11_Shown + 1 - j]
                  IN  /\ bars[j].period = item.period
                      /\ bars[j].net = item.net_premium - item.total_fees
            /\ \A j, k \in 1..Len(bars) : j < k => bars[j].period < bars[k].period
            /\ \A i \in 1..Len(premiumData) :
                  i > C11_Shown =>
                      \A j \in 1..Len(bars) : premiumData[i].period < bars[j].period

\* Fourteen periods: the chart starts at the twelfth newest (period 3).
C11_Witness ==
    /\ Len(premiumData) = 14
    /\ chartData /= None
    /\ Len(chartData[1]) = 12
    /\ chartData[1][1].period = 3 /\ chartData[1][12].period = 14

-----------------------------------------------------------------------------
(* Claims about the ledger under the pages' writes (SpecCache).            *)

C12_Closed == mutation /= None /\ mutation[1].kind = "close" /\ mutation[1].ok

\* C12: a close request that succeeds appends exactly one trade to the ledger;
\* the new trade has a fresh id, links to the closed trade, and its id is the
\* closing_trade_id returned; every earlier trade keeps its id, quantity,
\* price_per_unit, fees, trade_date and action, and trades other than the closed
\* one are untouched.
C12_CloseAddsLinkedTrade ==
    [][(mutation = None /\ C12_Closed') =>
          LET id == mutation'[1].args.id
              new == ledger'[Len(ledger')]
          IN  /\ Len(ledger') = Len(ledger) + 1
              /\ new.linked_trade_id = Some(id)
              /\ \A i \in 1..Len(ledger) : ledger[i].id /= new.id
              /\ mutation'[1].data.closing_trade_id = new.id
              /\ \A i \in 1..Len(ledger) :
                    /\ ledger'[i].id = ledger[i].id
                    /\ ledger'[i].quantity = ledger[i].quantity
                    /\ ledger'[i].price_per_unit = ledger[i].price_per_unit
                    /\ ledger'[i].fees = ledger[i].fees
                    /\ ledger'[i].trade_date = ledger[i].trade_date
                    /\ ledger'[i].action = ledger[i].action
                    /\ ledger[i].id /= id => ledger'[i] = ledger[i]]_vars

\* Trade 1 of the start-up ledger was closed at 0.50: trade 3 links to it.
C12_Witness ==
    /\ C12_Closed
    /\ mutation[1].args.id = 1 /\ mutation[1].data.closing_trade_id = 3
    /\ Len(ledger) = 3 /\ ledger[3].linked_trade_id = Some(1)
    /\ ledger[3].price_per_unit = 50 /\ ledger[1].price_per_unit = 200

\* C13: every trade with a linked_trade_id links to a trade of the ledger, and
\* never to itself.
C13_LinksResolve ==
    \A i \in 1..Len(ledger) :
        ledger[i].linked_trade_id /= None =>
            /\ \E j \in 1..Len(ledger) : ledger[j].id = ledger[i].linked_trade_id[1]
            /\ ledger[i].linked_trade_id[1] /= ledger[i].id

C16_Imported == mutation /= None /\ mutation[1].kind = "import" /\ mutation[1].ok

C16_RowAccepted(row) ==
    /\ row.ticker /= "" /\ row.trade_date \in ValidDates
    /\ row.action \in ActionTokens
    /\ row.quantity /= None /\ row.price /= None

\* C16: an import that succeeds accounts for every data row of the file: the
\* rows accepted are appended to the ledger as one trade each, in row order,
\* before and after a rejected row alike; every other row has one error in
\* errors; imported + total_errors is the number of rows and total_errors is
\* the length of errors.  The trades already stored stay as they were.
C16_EveryRowAccounted ==
    [][(mutation = None /\ C16_Imported') =>
          LET rows == CsvFiles[mutation'[1].args.file].rows
              res == mutation'[1].data
              accepted == SelectSeq(rows, C16_RowAccepted)
              rejected == { n \in 1..Len(rows) : ~C16_RowAccepted(rows[n]) }
          IN  /\ res.imported + res.total_errors = Len(rows)
              /\ res.total_errors = Len(res.errors)
              /\ res.imported = Len(accepted)
              /\ { res.errors[e].row : e \in 1..Len(res.errors) } = rejected
              /\ Len(ledger') = Len(ledger) + res.imported
              /\ SubSeq(ledger', 1, Len(ledger)) = ledger
              /\ \A n \in 1..Len(accepted) :
                    LET t == ledger'[Len(ledger) + n]
                    IN  /\ t.ticker = accepted[n].ticker
                        /\ t.action = accepted[n].action
                        /\ t.quantity = accepted[n].quantity[1]
                        /\ t.price_per_unit = accepted[n].price[1]]_vars

\* A file of three rows whose second row is rejected was imported into an
\* empty ledger: rows 1 and 3 are stored.
C16_Witness ==
    /\ C16_Imported
    /\ mutation[1].data.imported = 2 /\ mutation[1].data.total_errors = 1
    /\ mutation[1].data.errors[1].row = 2
    /\ Len(ledger) = 2 /\ ledger[1].action = "Buy" /\ ledger[2].action = "STO"

\* The closing trades of a ledger linked to the trade t, and their summed quantity.
LinkedClosings(stored, t) ==
    { c \in RangeOf(stored) :
        c.action \in ClosingActions /\ c.linked_trade_id = Some(t.id) }

ClosedQuantity(stored, t) ==
    LET closings == LinkedClosings(stored, t)
    IN  SumSet({ c.id : c \in closings },
               [i \in { c.id : c \in closings } |->
                   (CHOOSE c \in closings : c.id = i).quantity])

OptionOpenings(stored) ==
    { t \in RangeOf(stored) :
        t.asset_type \in {"Option", "Spread"} /\ t.action \in OpeningActions }

Orphans(stored) ==
    { c \in RangeOf(stored) :
        /\ c.linked_trade_id /= None
        /\ \A t \in RangeOf(stored) : t.id /= c.linked_trade_id[1] }

WithoutOrphans(stored) == SelectSeq(stored, LAMBDA t : t \notin Orphans(stored))

\* C17: with closing trades left linking to a deleted trade, the open
\* positions, the P&L summary and the highlight set are still computed: every
\* open position belongs to an opening trade of the ledger, positions and
\* realized P&L are those of the ledger without the orphaned trades, and the
\* highlight of a selected orphan is the orphan, the id it links to and the
\* other trades linking to that id.
C17_OrphanTolerated ==
    resolved /= None =>
        LET view == resolved[1]
        IN  /\ \A p \in view.openPositions :
                  \E t \in OptionOpenings(ledger) : t.id = p.id
            /\ view.openPositions = ServerOpenPositions(WithoutOrphans(ledger))
            /\ view.summary.realized_pnl
                   = ServerSummary(WithoutOrphans(ledger)).realized_pnl
            /\ view.summary.unrealized_pnl = 0
            /\ view.selectedId = None => view.highlightedIds = {}
            /\ \A o \in RangeOf(ledger) :
                  view.selectedId = Some(o.id) =>
                      /\ o.id \in view.highlightedIds
                      /\ o \in Orphans(ledger) =>
                            view.highlightedIds
                                = {o.id, o.linked_trade_id[1]}
                                      \cup { c.id : c \in { d \in Orphans(ledger) :
                                               d.linked_trade_id = o.linked_trade_id } }

\* Two closing trades link to a trade that is gone, and one of them is selected.
C17_Witness ==
    /\ resolved /= None
    /\ \E o \in Orphans(ledger) :
          /\ resolved[1].selectedId = Some(o.id)
          /\ \E c \in Orphans(ledger) :
                c.id /= o.id /\ c.linked_trade_id = o.linked_trade_id
          /\ Cardinality(resolved[1].highlightedIds) >= 3

\* C18 as stated: a ledger without BTC, STC, Expired and Assigned trades has
\* realized_pnl = 0 and unrealized_pnl = 0.
C18_NoClosingNoPnl ==
    resolved /= None =>
        ((\A t \in RangeOf(ledger) : t.action \notin ClosingActions)
            => /\ resolved[1].summary.realized_pnl = 0
               /\ resolved[1].summary.unrealized_pnl = 0)

\* C18: a ledger with no closing trade (BTC, STC, Expired, Assigned) and no
\* stock Sell has realized_pnl = 0 and unrealized_pnl = 0; a Sell realizes
\* P&L at the time it is recorded.
C18_NoClosingNoSellNoPnl ==
    resolved /= None =>
        ((\A t \in RangeOf(ledger) : t.action \notin ClosingActions \cup {"Sell"})
            => /\ resolved[1].summary.realized_pnl = 0
               /\ resolved[1].summary.unrealized_pnl = 0)

\* A ledger of opening trades and a stock purchase only has been resolved.
C18_Witness ==
    /\ resolved /= None
    /\ \A t \in RangeOf(ledger) : t.action \notin ClosingActions \cup {"Sell"}
    /\ \E t \in RangeOf(ledger) : t.action = "Buy"
    /\ \E t \in RangeOf(ledger) : t.action \in OpeningActions
    /\ resolved[1].summary.total_fees > 0
    /\ resolved[1].summary.realized_pnl = 0

\* The opening trade a closing trade links to, in a ledger that holds it.
OpeningOf(stored, c) == CHOOSE o \in RangeOf(stored) : Some(o.id) = c.linked_trade_id

\* Ledgers made of STO trades and closing trades linked to them.
C19_ShortOnly(stored) ==
    /\ stored /= <<>>
    /\ Orphans(stored) = {}
    /\ \A t \in RangeOf(stored) :
          \/ t.action = "STO" /\ t.asset_type = "Option"
          \/ /\ t.action \in ClosingActions
             /\ t.linked_trade_id /= None
             /\ OpeningOf(stored, t).action = "STO"

\* C19: each closing trade linked to an STO opening trade realizes
\* (open price - close price) x closed quantity x 100 minus the fees of the
\* opening and of the closing trade, also for the partial closes of one
\* opening trade; 1 contract opened at 2.00 with fees 0.65 and closed at 0.50
\* with fees 0.65 realizes 148.70 (14870 cents).
C19_ShortRealized ==
    resolved /= None /\ C19_ShortOnly(ledger) =>
        LET closings == { c \in RangeOf(ledger) : c.action \in ClosingActions }
            amount == [i \in { c.id : c \in closings } |->
                          LET c == CHOOSE d \in closings : d.id = i
                              o == OpeningOf(ledger, c)
                          IN  (o.price_per_unit - c.price_per_unit) * c.quantity * 100
                                  - (o.fees + c.fees)]
        IN  /\ resolved[1].summary.realized_pnl
                   = SumSet({ c.id : c \in closings }, amount)
            /\ (\E o, c \in RangeOf(ledger) :
                   /\ ledger = <<o, c>>
                   /\ o.quantity = 1 /\ o.price_per_unit = 200 /\ o.fees = 65
                   /\ c.quantity = 1 /\ c.price_per_unit = 50 /\ c.fees = 65)
                  => resolved[1].summary.realized_pnl = 14870

\* The STO of 1 contract at 2.00, closed at 0.50, has been resolved at 148.70.
C19_Witness ==
    /\ resolved /= None
    /\ C19_ShortOnly(ledger)
    /\ Len(ledger) = 2
    /\ ledger[1].quantity = 1 /\ ledger[1].price_per_unit = 200
    /\ ledger[2].action = "BTC" /\ ledger[2].price_per_unit = 50
    /\ resolved[1].summary.realized_pnl = 14870
    /\ resolved[1].openPositions = {}

\* Summed quantity of the stock trades of one ticker with one action.
StockQuantity(stored, ticker, action) ==
    LET lots == { t \in RangeOf(stored) :
                    t.asset_type = "Stock" /\ t.ticker = ticker /\ t.action = action }
    IN  SumSet({ t.id : t \in lots },
               [i \in { t.id : t \in lots } |-> (CHOOSE t \in lots : t.id = i).quantity])

\* C20: per ticker the stock position's shares are the Buy quantities minus
\* the Sell quantities, a ticker with 0 shares has no stock position, and the
\* displayed average cost is cost_basis / shares when shares > 0 and 0
\* otherwise.
C20_StockPositions ==
    resolved /= None =>
        LET view == resolved[1]
        IN  /\ \A k \in ServerTickers(ledger) :
                  LET shares == StockQuantity(ledger, k, "Buy")
                                    - StockQuantity(ledger, k, "Sell")
                      held == { pos \in view.stockPositions : pos.ticker = k }
                  IN  /\ shares = 0 => held = {}
                      /\ shares /= 0 =>
                            /\ Cardinality(held) = 1
                            /\ \A pos \in held : pos.shares = shares
            /\ \A pos \in view.stockPositions :
                  \E row \in view.stockRows :
                      /\ row.ticker = pos.ticker /\ row.shares = pos.shares
                      /\ pos.shares > 0 => row.avgCost * pos.shares = pos.cost_basis
                      /\ pos.shares <= 0 => row.avgCost = 0
            /\ Cardinality(view.stockRows) = Cardinality(view.stockPositions)

\* One stock is held after a partial sale and shown with its average cost,
\* another was sold in full and has no position.
C20_Witness ==
    /\ resolved /= None
    /\ \E k \in ServerTickers(ledger) :
          /\ StockQuantity(ledger, k, "Buy") > 0
          /\ StockQuantity(ledger, k, "Buy") = StockQuantity(ledger, k, "Sell")
          /\ \A pos \in resolved[1].stockPositions : pos.ticker /= k
    /\ \E row \in resolved[1].stockRows :
          /\ StockQuantity(ledger, row.ticker, "Sell") > 0
          /\ row.shares > 0 /\ row.avgCost > 0

C21_Blank(s) == \A i \in 1..Len(s) : s[i] = " "

\* C21: a submit of the Add Trade form with an empty or whitespace-only
\* ticker issues no create request and writes nothing, and every create
\* request issued carries the form's non-blank ticker in upper case.
C21_NoBlankTickerRequest ==
    [][ /\ (C21_Blank(form.ticker) /\ createReq = None)
            => /\ createReq' = None
               /\ nextId' = nextId
               /\ createPending' => createPending
        /\ (createReq' /= None /\ createReq' /= createReq)
            => /\ ~C21_Blank(form.ticker)
               /\ createReq'[1].ticker = toUpperCase(form.ticker)
               /\ \A i \in 1..Len(createReq'[1].ticker) :
                     IndexIn(LowerAlpha, createReq'[1].ticker[i]) = 0 ]_vars

\* The form was submitted with a whitespace-only ticker: the alert is shown and
\* no request was issued.
C21_Witness ==
    /\ alertMsg /= None
    /\ form.ticker /= <<>> /\ C21_Blank(form.ticker)
    /\ createReq = None /\ ~createPending /\ nextId = 1

\* The fields createMutation.onSuccess resets, with their empty values.
C29_Reset ==
    [ticker |-> <<>>, price_per_unit |-> 0, fees |-> 0, notes |-> "",
     linked_trade_id |-> None]

\* C29: a successful create resets ticker, price_per_unit, fees, notes and
\* linked_trade_id to their empty values and leaves every other form field as
\* it was; a failed create changes no form field.
C29_ResetOnlyAfterSuccess ==
    [][ (createResp /= None /\ createResp' = None) =>
            IF createResp[1].ok
            THEN \A k \in DOMAIN form :
                    form'[k] = IF k \in DOMAIN C29_Reset THEN C29_Reset[k] ELSE form[k]
            ELSE form' = form ]_vars

\* A create has succeeded for a form whose kept fields differ from the initial
\* ones: the success message is shown, the ticker is empty again.
C29_Witness ==
    /\ successMessage /= None
    /\ createResp = None /\ ~createPending
    /\ form.ticker = <<>> /\ form.price_per_unit = 0 /\ form.notes = ""
    /\ form.quantity /= InitialForm.quantity
    /\ form.asset_type /= InitialForm.asset_type

\* C25: the page index of the trade table addresses an existing page once the
\* list is refetched: 0 <= page, and page < totalPages whenever the filtered
\* list is not empty.
C25_PageInRange ==
    (tradesLoaded /\ ~tradesFetching /\ deleteMutation.status /= "pending") =>
        /\ 0 <= tablePage
        /\ Len(filtered) > 0 => tablePage < totalPages

\* C26: every change of a filter or of the sort resets the page index to 0; a
\* header click on the current sort column toggles the direction, a click on
\* another column selects it in descending order.
C26_SortAndFilterResetPage ==
    /\ [][ (filters' /= filters \/ sortKey' /= sortKey \/ sortAsc' /= sortAsc)
               => tablePage' = 0 ]_vars
    /\ [](\A key \in HeaderSortKeys :
             /\ handleSort(key).key = key
             /\ handleSort(key).asc = IF key = sortKey THEN ~sortAsc ELSE FALSE)

\* With two pages of trades, the sort was changed to an ascending column other
\* than the initial one and the table is on its first page.
C26_Witness ==
    /\ tradesLoaded /\ Len(filtered) > rowsPerPage
    /\ sortKey = "price_per_unit" /\ sortAsc
    /\ tablePage = 0

\* C22: a close request is issued only for a trade that is an open opening
\* position: the trade of the request is, in the ledger, an Option trade with
\* status Open and action STO or BTO.
C22_CloseOnlyOpenPosition ==
    closeMutation.status = "pending" =>
        \E t \in RangeOf(ledger) :
            /\ t.id = closeMutation.variables[1].id
            /\ t.status = Some("Open")
            /\ t.asset_type = "Option"
            /\ t.action \in {"STO", "BTO"}

\* C23: a close request with action type Expired carries a close price of 0,
\* whatever was edited in the dialog before.
C23_ExpiredAtZero ==
    (closeMutation.status = "pending"
        /\ closeMutation.variables[1].request.action_type = "Expired")
        => closeMutation.variables[1].request.close_price = 0

\* C24: a preview shown is the preview of the selected file, and an import
\* request sends a file with a mapping whose non-empty columns are header
\* names of that file.
C24_PreviewOfSelectedFile ==
    /\ preview /= None => (file /= None /\ preview[1] = ServerPreview(file[1]))
    /\ importReq /= None =>
          \A k \in MappingFields :
              \/ importReq[1].mapping[k] = <<>>
              \/ importReq[1].mapping[k] \in RangeOf(CsvFiles[importReq[1].file].columns)

C28_CreateSingle ==
    /\ ~(createReq /= None /\ createResp /= None)
    /\ (createReq /= None \/ createResp /= None) => createPending
C28_ImportSingle ==
    /\ ~(importReq /= None /\ importResp /= None)
    /\ (importReq /= None \/ importResp /= None) => importPending

\* The trades the claim C27 names for a selected trade s: s itself, the trade
\* s links to, the trades linking to the same trade as s, the trades linking
\* to s.
LinkedGroup(s, list) ==
    LET linkOf == { t.linked_trade_id[1] :
                      t \in { u \in RangeOf(list) :
                                u.id = s /\ u.linked_trade_id /= None } }
    IN  {s} \cup linkOf
            \cup { t.id : t \in { u \in RangeOf(list) :
                      u.linked_trade_id /= None /\ u.linked_trade_id[1] \in linkOf } }
            \cup { t.id : t \in { u \in RangeOf(list) :
                      u.linked_trade_id = Some(s) } }

\* C27: the highlighted set of a selected trade s is s, the trade s links to,
\* the trades linking to the same trade as s and the trades linking to s; it
\* is empty when no trade is selected; and a trade a is highlighted when b is
\* selected exactly when b is highlighted when a is selected.
C27_HighlightSymmetric ==
    resolved /= None =>
        LET view == resolved[1]
        IN  /\ view.selectedId = None => view.highlightedIds = {}
            /\ \A b \in RangeOf(ledger) :
                  view.selectedId = Some(b.id) =>
                      /\ view.highlightedIds = LinkedGroup(b.id, ledger)
                      /\ \A a \in RangeOf(ledger) :
                            a.id \in view.highlightedIds
                                <=> b.id \in getLinkedIds(Some(a.id), ledger)

\* A closing trade is selected; its opening trade and another closing of the
\* same opening trade are in the list and highlighted with it.
C27_Witness ==
    /\ resolved /= None
    /\ \E s, o, c \in RangeOf(ledger) :
          /\ resolved[1].selectedId = Some(s.id)
          /\ s.linked_trade_id = Some(o.id)
          /\ c.id /= s.id /\ c.linked_trade_id = Some(o.id)
          /\ {s.id, o.id, c.id} \subseteq resolved[1].highlightedIds

\* C30: the onSuccess callback of every successful write mutation (create,
\* notes update, delete, close, CSV import, load sample data) invalidates the
\* cached trade list and refetches it where it is observed; and once no
\* mutation or fetch is in flight, the trade list a page shows after a write
\* is the ledger's: it omits no created trade and lists no deleted one.
C30_TradeListInvalidated ==
    /\ [][(mutation /= None /\ mutation[1].ok /\ mutation' = None) =>
             /\ cache["trades"].data /= None => cache'["trades"].invalidated
             /\ "trades" \in Observed(page, cache) => "trades" \in fetching']_vars
    /\ []((writes > 0 /\ Settled /\ "trades" \in Shown(page, cache)) =>
             cache["trades"].data = Some(ledger))

\* The Trades page after a delete and a notes update, settled: the deleted
\* trade 1 is gone from the table and trade 2 shows its new notes.
C30_Witness ==
    /\ page = "Trades" /\ Settled /\ writes = 2
    /\ cache["trades"].data = Some(ledger)
    /\ \A t \in RangeOf(ledger) : t.id /= 1
    /\ \E t \in RangeOf(ledger) : t.id = 2 /\ t.notes /= None

====
